---- MODULE Spec2Model ----
(***************************************************************************)
(* Model of the mappings of go-collections: DictionarySync (a map behind   *)
(* a sync.RWMutex), the size-bounded DictionaryLimit (a DictionarySync     *)
(* plus a Vector timeline) and DictionaryLimited (the same with a slice    *)
(* timeline), with the Vector operations they call, first one call at a    *)
(* time and then with goroutines that call concurrently.                   *)
(***************************************************************************)
EXTENDS Integers, Sequences, FiniteSets, TLC

VARIABLES
    impl,       \* the type of the object: "DictionaryLimit", "DictionaryLimited",
                \* "DictionarySync", "Dictionary" or "Vector"
    origin,     \* "none" before construction, then "Empty", "FromMap" or "FromList"
    size,       \* field size: the capacity
    items,      \* field items of the embedded DictionarySync: the backing map
    timeline,   \* field timeline: the keys in write order
    call,       \* the last call made on the object, with its arguments
    ret,        \* what that call returned: [old, exists]
    script,     \* the calls a scripted caller has made so far (SpecScript only)
    mu,         \* field mu of DictionarySync: who holds the sync.RWMutex
    procs,      \* the goroutines calling concurrently: position, call, locals
    other       \* the mapping a Filter call returned, and whether it is backed
                \* by the receiver's own map

vars == <<impl, origin, size, items, timeline, call, ret, script, mu, procs,
          other>>

----------------------------------------------------------------------------
(* Bounds of the model *)

\* The largest capacity, the most keys in a map given to PutAll, the longest
\* list a mapping is seeded from, and the largest capacity the scripted caller
\* fills.
MaxSize == 2
MaxBatch == 2
MaxList == 2
MaxFill == 3

\* The n of the stress test: the goroutines of each kind it starts.
StressN == 2

\* The keys and values the calls draw from: one key more than the largest
\* capacity, two values to tell an overwrite from the value it replaces.
Keys == {1, 2, 3}
Values == {1, 2}
Sizes == 1..MaxSize

\* The scripted caller fills a capacity with distinct keys and has one more.
ScriptSizes == 1..MaxFill
ScriptKeys == 1..(MaxFill + 1)
Impls == {"DictionaryLimit", "DictionaryLimited"}

\* The zero value of the value type, which Go gives to `old` for an absent key.
ZeroValue == 0

----------------------------------------------------------------------------
(* Go maps *)

EmptyMap == [k \in {} |-> ZeroValue]

MapSet(m, k, v) == [x \in (DOMAIN m) \cup {k} |-> IF x = k THEN v ELSE m[x]]

MapDelete(m, k) == [x \in (DOMAIN m) \ {k} |-> m[x]]

\* All maps from at most n keys to values.
MapsUpTo(n) ==
    UNION {[D -> Values] : D \in {S \in SUBSET Keys : Cardinality(S) <= n}}

\* The orders in which `for k := range m` may visit the keys of a map.
RangeOrders(m) ==
    {o \in [1..Cardinality(DOMAIN m) -> DOMAIN m] :
        \A i, j \in DOMAIN o : i # j => o[i] # o[j]}

----------------------------------------------------------------------------
(* Vector: the operations the timeline uses. Indices are Go's, from 0. *)

VectorSize(v) == Len(v)

VectorAppend(v, x) == Append(v, x)

\* IndexOf with the predicate `key == t`: the first index, or -1.
VectorIndexOf(v, key) ==
    IF \E i \in 1..Len(v) : v[i] = key
    THEN (CHOOSE i \in 1..Len(v) :
            v[i] = key /\ \A j \in 1..(i - 1) : v[j] # key) - 1
    ELSE -1

\* Remove: c.items = append(c.items[:index], c.items[index:]...)
\* items[:index] is the first `index` elements, items[index:] the rest from
\* position index on, the element at index included.
VectorRemove(v, index) ==
    IF index < 0 \/ index > Len(v) - 1
    THEN v
    ELSE SubSeq(v, 1, index) \o SubSeq(v, index + 1, Len(v))

\* Shift on a non-empty vector: the first element and the rest.
VectorShiftFirst(v) == v[1]

VectorShiftRest(v) == SubSeq(v, 2, Len(v))

----------------------------------------------------------------------------
(* The bounded mapping. An object is the pair [items, timeline]; an          *)
(* operation returns the object it leaves, with what it returns.             *)

Obj(its, tl) == [items |-> its, timeline |-> tl]

\* The eviction step every write ends with:
\*   if timeline.Size() > 0 && timeline.Size() > size { first := Shift(); delete(items, first) }
\* A step that lets the timeline grow one past the capacity.
EvictFrontLate(d, sz) ==
    IF VectorSize(d.timeline) > 0 /\ VectorSize(d.timeline) > sz + 1
    THEN Obj(MapDelete(d.items, VectorShiftFirst(d.timeline)),
             VectorShiftRest(d.timeline))
    ELSE d

\* A step that takes the newest key, the back of the timeline, instead.
EvictBack(d, sz) ==
    IF VectorSize(d.timeline) > 0 /\ VectorSize(d.timeline) > sz
    THEN Obj(MapDelete(d.items, d.timeline[Len(d.timeline)]),
             SubSeq(d.timeline, 1, Len(d.timeline) - 1))
    ELSE d

\* A step that takes the two oldest keys when the timeline is over capacity.
EvictFrontTwice(d, sz) ==
    IF VectorSize(d.timeline) > 0 /\ VectorSize(d.timeline) > sz
    THEN Obj(MapDelete(MapDelete(d.items, d.timeline[1]), d.timeline[2]),
             SubSeq(d.timeline, 3, Len(d.timeline)))
    ELSE d

\* A step that shifts the timeline and leaves the entry in the map.
EvictFrontKeepsEntry(d, sz) ==
    IF VectorSize(d.timeline) > 0 /\ VectorSize(d.timeline) > sz
    THEN Obj(d.items, VectorShiftRest(d.timeline))
    ELSE d

EvictFront(d, sz) ==
    IF VectorSize(d.timeline) > 0 /\ VectorSize(d.timeline) > sz
    THEN Obj(MapDelete(d.items, VectorShiftFirst(d.timeline)),
             VectorShiftRest(d.timeline))
    ELSE d

Result(d, old, exists) ==
    [items |-> d.items, timeline |-> d.timeline, old |-> old, exists |-> exists]

\* old, exists := c.items[key]
OldOf(its, key) == IF key \in DOMAIN its THEN its[key] ELSE ZeroValue

\* DictionaryLimit.Put: write, take the key's earlier occurrence out of the
\* timeline with IndexOf and Remove, append the key, evict.
DictionaryLimitPut(d, sz, key, item) ==
    LET written == MapSet(d.items, key, item)
        index   == VectorIndexOf(d.timeline, key)
        removed == IF index # -1 THEN VectorRemove(d.timeline, index)
                                 ELSE d.timeline
        after   == EvictFront(Obj(written, VectorAppend(removed, key)), sz)
    IN  Result(after, OldOf(d.items, key), key \in DOMAIN d.items)

\* DictionaryLimited.Put: write, append the key, evict.
DictionaryLimitedPut(d, sz, key, item) ==
    LET written == MapSet(d.items, key, item)
        after   == EvictFront(Obj(written, Append(d.timeline, key)), sz)
    IN  Result(after, OldOf(d.items, key), key \in DOMAIN d.items)

\* A PutIfAbsent without the early return for a present key.
DictionaryLimitPutIfAbsentAlways(d, sz, key, item) ==
    DictionaryLimitPut(d, sz, key, item)

\* DictionaryLimit.PutIfAbsent: return at once when the key is present,
\* otherwise as Put.
DictionaryLimitPutIfAbsent(d, sz, key, item) ==
    IF key \in DOMAIN d.items
    THEN Result(d, d.items[key], TRUE)
    ELSE LET written == MapSet(d.items, key, item)
             index   == VectorIndexOf(d.timeline, key)
             removed == IF index # -1 THEN VectorRemove(d.timeline, index)
                                      ELSE d.timeline
             after   == EvictFront(Obj(written, VectorAppend(removed, key)), sz)
         IN  Result(after, ZeroValue, FALSE)

\* DictionaryLimited.PutIfAbsent
DictionaryLimitedPutIfAbsent(d, sz, key, item) ==
    IF key \in DOMAIN d.items
    THEN Result(d, d.items[key], TRUE)
    ELSE LET written == MapSet(d.items, key, item)
             after   == EvictFront(Obj(written, Append(d.timeline, key)), sz)
         IN  Result(after, ZeroValue, FALSE)

\* The first loop of PutAll, visiting the keys of m in `order` from position i:
\*   if count == c.size { break }; c.items[key] = items[key]; timeline.Append(key); count++
\* It returns the object with the count of accepted entries.
RECURSIVE PutAllInsert(_, _, _, _, _, _)
PutAllInsert(d, sz, m, order, i, count) ==
    IF i > Len(order) \/ count = sz
    THEN [d |-> d, count |-> count]
    ELSE PutAllInsert(Obj(MapSet(d.items, order[i], m[order[i]]),
                          VectorAppend(d.timeline, order[i])),
                      sz, m, order, i + 1, count + 1)

\* A second loop that runs one eviction step whatever the count.
PutAllEvictOnce(d, sz, n) ==
    IF n = 0 THEN d ELSE EvictFront(d, sz)

\* The second loop of PutAll: `for range count`, one eviction step each.
RECURSIVE PutAllEvict(_, _, _)
PutAllEvict(d, sz, n) ==
    IF n = 0 THEN d ELSE PutAllEvict(EvictFront(d, sz), sz, n - 1)

\* DictionaryLimit.PutAll and DictionaryLimited.PutAll (the same two loops)
DictionaryLimitPutAll(d, sz, m, order) ==
    LET ins == PutAllInsert(d, sz, m, order, 1, 0)
    IN  Result(PutAllEvict(ins.d, sz, ins.count), ZeroValue, FALSE)

\* The seed loop of DictionaryLimitFromMap, visiting m in `order` from i:
\*   if count == size || timeline.Size() > size { break }
\*   instance.items[k] = v; instance.timeline.Append(k); count++
RECURSIVE FromMapLoop(_, _, _, _, _, _)
FromMapLoop(d, sz, m, order, i, count) ==
    IF i > Len(order) \/ count = sz \/ VectorSize(d.timeline) > sz
    THEN d
    ELSE FromMapLoop(Obj(MapSet(d.items, order[i], m[order[i]]),
                         VectorAppend(d.timeline, order[i])),
                     sz, m, order, i + 1, count + 1)

\* A seeding that stops one entry late.
DictionaryLimitFromMapLate(sz, m, order) ==
    FromMapLoop(Obj(EmptyMap, <<>>), sz + 1, m, order, 1, 0)

\* DictionaryLimitFromMap / DictionaryLimitedFromMap
DictionaryLimitFromMap(sz, m, order) ==
    FromMapLoop(Obj(EmptyMap, <<>>), sz, m, order, 1, 0)

\* DictionaryLimitEmpty / DictionaryLimitedEmpty
DictionaryLimitEmpty(sz) == DictionaryLimitFromMap(sz, EmptyMap, <<>>)

\* Put of the type t
PutOf(t, d, sz, key, item) ==
    IF t = "DictionaryLimit" THEN DictionaryLimitPut(d, sz, key, item)
                             ELSE DictionaryLimitedPut(d, sz, key, item)

PutIfAbsentOf(t, d, sz, key, item) ==
    IF t = "DictionaryLimit" THEN DictionaryLimitPutIfAbsent(d, sz, key, item)
                             ELSE DictionaryLimitedPutIfAbsent(d, sz, key, item)

\* The loop of DictionaryLimitFromList / DictionaryLimitedFromList from i:
\*   if count == size || mapp.timeline.Size() > size { break }
\*   key := mapper(v); mapp.Put(key, v); mapp.timeline.Append(key); count++
RECURSIVE FromListLoop(_, _, _, _, _, _, _)
FromListLoop(t, d, sz, list, mapper, i, count) ==
    IF i > Len(list) \/ count = sz \/ VectorSize(d.timeline) > sz
    THEN d
    ELSE LET key == mapper[list[i]]
             put == PutOf(t, d, sz, key, list[i])
         IN  FromListLoop(t, Obj(put.items, VectorAppend(put.timeline, key)),
                          sz, list, mapper, i + 1, count + 1)

\* DictionaryLimitFromList / DictionaryLimitedFromList (FromVector passes
\* the vector's items to it)
DictionaryLimitFromList(t, sz, list, mapper) ==
    FromListLoop(t, DictionaryLimitEmpty(sz), sz, list, mapper, 1, 0)

----------------------------------------------------------------------------
(* State machine: one bounded mapping and the calls made on it. *)

\* The record of a call: its name and its arguments (the others left empty).
Call(op, key, item, m, list, mapper) ==
    [op |-> op, key |-> key, item |-> item, m |-> m, list |-> list,
     mapper |-> mapper]

NoRet == [old |-> ZeroValue, exists |-> FALSE]

\* A map with one of the orders a range loop may visit it in.
Ranged(n) ==
    UNION {{[m |-> m, order |-> o] : o \in RangeOrders(m)} : m \in MapsUpTo(n)}

\* The maps PutAll is called with, and the maps a mapping is seeded from.
Batches == Ranged(MaxBatch)

Seeds == Ranged(Cardinality(Keys))

\* The lists a mapping is seeded from, and the key functions given with them.
Lists == UNION {[1..n -> Values] : n \in 0..MaxList}

Mappers == [Values -> Keys]

\* A sync.RWMutex nobody holds: no writer (goroutines are numbered from 1)
\* and no readers.
Unlocked == [writer |-> 0, readers |-> {}]

\* No Filter call has returned a mapping yet.
NoOther == [made |-> FALSE, items |-> EmptyMap, shares |-> FALSE]

\* The object a constructor leaves, its mutex free.
Built(t, sz, how, d, c) ==
    /\ impl = t
    /\ origin = how
    /\ size = sz
    /\ items = d.items
    /\ timeline = d.timeline
    /\ call = c
    /\ ret = NoRet
    /\ script = <<>>
    /\ mu = Unlocked
    /\ other = NoOther

\* The state a constructor leaves when one caller uses the object.
Constructed(t, sz, how, d, c) ==
    /\ Built(t, sz, how, d, c)
    /\ procs = <<>>

InitEmpty ==
    \E t \in Impls, sz \in Sizes :
        Constructed(t, sz, "Empty", DictionaryLimitEmpty(sz),
                    Call("Empty", 0, 0, EmptyMap, <<>>, EmptyMap))

InitFromMap ==
    \E t \in Impls, sz \in Sizes, s \in Seeds :
        Constructed(t, sz, "FromMap", DictionaryLimitFromMap(sz, s.m, s.order),
                    Call("FromMap", 0, 0, s.m, <<>>, EmptyMap))

InitFromList ==
    \E t \in Impls, sz \in Sizes, list \in Lists, mapper \in Mappers :
        Constructed(t, sz, "FromList",
                    DictionaryLimitFromList(t, sz, list, mapper),
                    Call("FromList", 0, 0, EmptyMap, list, mapper))

\* A mapping created empty or seeded from a map.
Init == InitEmpty \/ InitFromMap

\* The object as the operations take it.
Self == Obj(items, timeline)

\* The state after an operation that left r.
Returned(r, c) ==
    /\ items' = r.items
    /\ timeline' = r.timeline
    /\ ret' = [old |-> r.old, exists |-> r.exists]
    /\ call' = c
    /\ UNCHANGED <<impl, origin, size, mu, procs, other>>

DoPut(key, item) ==
    Returned(PutOf(impl, Self, size, key, item),
             Call("Put", key, item, EmptyMap, <<>>, EmptyMap))

DoPutIfAbsent(key, item) ==
    Returned(PutIfAbsentOf(impl, Self, size, key, item),
             Call("PutIfAbsent", key, item, EmptyMap, <<>>, EmptyMap))

DoPutAll(m, order) ==
    Returned(DictionaryLimitPutAll(Self, size, m, order),
             Call("PutAll", 0, 0, m, <<>>, EmptyMap))

Put ==
    /\ \E key \in Keys, item \in Values : DoPut(key, item)
    /\ UNCHANGED script

PutIfAbsent ==
    /\ \E key \in Keys, item \in Values : DoPutIfAbsent(key, item)
    /\ UNCHANGED script

PutAll ==
    /\ \E b \in Batches : DoPutAll(b.m, b.order)
    /\ UNCHANGED script

Next == Put \/ PutIfAbsent \/ PutAll

Spec == Init /\ [][Next]_vars

\* A mapping seeded from a list, and the same calls on it.
SpecList == InitFromList /\ [][Next]_vars

----------------------------------------------------------------------------
(* A scripted caller: on an empty mapping of capacity C it Puts C distinct   *)
(* keys, then writes the first of them again, with Put or with PutIfAbsent,  *)
(* then Puts one more new key. script holds the calls made so far.           *)

InitScript ==
    \E t \in Impls, sz \in ScriptSizes :
        Constructed(t, sz, "Empty", DictionaryLimitEmpty(sz),
                    Call("Empty", 0, 0, EmptyMap, <<>>, EmptyMap))

ScriptWritten == {script[i].key : i \in 1..Len(script)}

ScriptFill ==
    /\ Len(script) < size
    /\ \E key \in ScriptKeys \ ScriptWritten, item \in Values : DoPut(key, item)
    /\ script' = Append(script, call')

ScriptPutAgain ==
    /\ Len(script) = size
    /\ \E item \in Values : DoPut(script[1].key, item)
    /\ script' = Append(script, call')

ScriptPutIfAbsentAgain ==
    /\ Len(script) = size
    /\ \E item \in Values : DoPutIfAbsent(script[1].key, item)
    /\ script' = Append(script, call')

ScriptPutNew ==
    /\ Len(script) = size + 1
    /\ \E key \in ScriptKeys \ ScriptWritten, item \in Values : DoPut(key, item)
    /\ script' = Append(script, call')

NextScript ==
    ScriptFill \/ ScriptPutAgain \/ ScriptPutIfAbsentAgain \/ ScriptPutNew

SpecScript == InitScript /\ [][NextScript]_vars

\* A caller that Puts keys it has not written before into an empty mapping,
\* as long as it has such a key.
ScriptPutDistinct ==
    /\ \E key \in ScriptKeys \ ScriptWritten, item \in Values : DoPut(key, item)
    /\ script' = Append(script, call')

SpecDistinct == InitScript /\ [][ScriptPutDistinct]_vars

----------------------------------------------------------------------------
(* DictionarySync: a map behind a sync.RWMutex. Each operation below is the  *)
(* body the method runs while it holds the lock.                             *)

DictionarySyncFromMap(m) == Obj(m, <<>>)

DictionarySyncEmpty == DictionarySyncFromMap(EmptyMap)

\* A Put that returns the value it wrote.
DictionarySyncPutReturnsNew(d, key, item) ==
    Result(Obj(MapSet(d.items, key, item), d.timeline),
           item, key \in DOMAIN d.items)

\* old, exists := c.items[key]; c.items[key] = item; return old, exists
DictionarySyncPut(d, key, item) ==
    Result(Obj(MapSet(d.items, key, item), d.timeline),
           OldOf(d.items, key), key \in DOMAIN d.items)

\* A PutIfAbsent that writes whether or not the key is present.
DictionarySyncPutIfAbsentAlways(d, key, item) ==
    DictionarySyncPut(d, key, item)

\* old, exists := c.items[key]; if !exists { c.items[key] = item }
DictionarySyncPutIfAbsent(d, key, item) ==
    IF key \in DOMAIN d.items
    THEN Result(d, d.items[key], TRUE)
    ELSE Result(Obj(MapSet(d.items, key, item), d.timeline), ZeroValue, FALSE)

\* old, exists := c.items[key]; delete(c.items, key); return old, exists
DictionarySyncRemove(d, key) ==
    Result(Obj(MapDelete(d.items, key), d.timeline),
           OldOf(d.items, key), key \in DOMAIN d.items)

\* for k, v := range c.items { c.items[k] = predicate(k, v) }
\* Every key is visited once and only its own entry is written.
DictionarySyncMap(d, predicate) ==
    Result(Obj([k \in DOMAIN d.items |-> predicate[k, d.items[k]]], d.timeline),
           ZeroValue, FALSE)

\* value, exists := c.items[key]; return value, exists
DictionarySyncGet(d, key) ==
    Result(d, OldOf(d.items, key), key \in DOMAIN d.items)

\* return len(c.items)
DictionarySyncSize(d) == Cardinality(DOMAIN d.items)

\* The functions given to Map.
MapPredicates == [Keys \X Values -> Values]

InitSync ==
    \/ Constructed("DictionarySync", 0, "Empty", DictionarySyncEmpty,
                   Call("Empty", 0, 0, EmptyMap, <<>>, EmptyMap))
    \/ \E m \in MapsUpTo(Cardinality(Keys)) :
           Constructed("DictionarySync", 0, "FromMap", DictionarySyncFromMap(m),
                       Call("FromMap", 0, 0, m, <<>>, EmptyMap))

SyncPut ==
    /\ impl = "DictionarySync"
    /\ \E key \in Keys, item \in Values :
           Returned(DictionarySyncPut(Self, key, item),
                    Call("Put", key, item, EmptyMap, <<>>, EmptyMap))
    /\ UNCHANGED script

SyncPutIfAbsent ==
    /\ impl = "DictionarySync"
    /\ \E key \in Keys, item \in Values :
           Returned(DictionarySyncPutIfAbsent(Self, key, item),
                    Call("PutIfAbsent", key, item, EmptyMap, <<>>, EmptyMap))
    /\ UNCHANGED script

SyncRemove ==
    /\ impl = "DictionarySync"
    /\ \E key \in Keys :
           Returned(DictionarySyncRemove(Self, key),
                    Call("Remove", key, 0, EmptyMap, <<>>, EmptyMap))
    /\ UNCHANGED script

SyncMap ==
    /\ impl = "DictionarySync"
    /\ \E predicate \in MapPredicates :
           Returned(DictionarySyncMap(Self, predicate),
                    Call("Map", 0, 0, EmptyMap, <<>>, predicate))
    /\ UNCHANGED script

\* The bounded mapping's write operations.
LimitNext ==
    /\ impl \in Impls
    /\ Next

\* Writes on a DictionarySync or on a bounded mapping, one call at a time.
NextWrite == LimitNext \/ SyncPut \/ SyncPutIfAbsent \/ SyncRemove \/ SyncMap

SpecWrite == (Init \/ InitSync) /\ [][NextWrite]_vars

----------------------------------------------------------------------------
(* Goroutines calling one shared mapping. A call is a walk through the      *)
(* statements of its method: procs[g].pc is the statement goroutine g is at, *)
(* and a step runs one statement that takes or frees the mutex or reads or  *)
(* writes the backing map.                                                  *)

\* sync.RWMutex: Lock returns when nobody holds the mutex, RLock when no
\* writer holds it; Unlock and RUnlock give up the caller's hold.
CanLockAlways(m) == TRUE

CanLock(m) == m.writer = 0 /\ m.readers = {}

CanRLockAlways(m) == TRUE

CanRLock(m) == m.writer = 0

ReleaseNothing(m, g) == m

Release(m, g) ==
    [writer |-> IF m.writer = g THEN 0 ELSE m.writer, readers |-> m.readers \ {g}]

Holds(g) == mu.writer = g \/ g \in mu.readers

\* The methods that take c.mu.Lock() and those that take c.mu.RLock().
WriteOps == {"Put", "PutIfAbsent", "PutAll", "Remove", "Map", "FilterSelf", "Clean"}

ReadOps == {"Get", "Size", "Exists", "Find", "FindOne", "ForEach", "Keys",
            "Values", "Pairs", "Collect", "Clone", "Max", "Min", "Filter"}

\* The functions the callers pass, by name ("none" where a method takes no
\* function): the stress test's func(s, i) { return i + 1 }, and
\* func(k, v) { return v } and func(k, v) { return v > 1 } of the usage
\* examples.
Predicate(name, k, v) ==
    CASE name = "Increment" -> v + 1
      [] name = "Value" -> v
      [] name = "GreaterThanOne" -> v > 1

NewPair(k, v) == [key |-> k, value |-> v]

\* What Max and Min return for an empty map.
NotFound == [pair |-> NewPair(0, ZeroValue), score |-> 0, found |-> FALSE]

NoCall == Call("none", 0, 0, EmptyMap, <<>>, "none")

\* A goroutine that has not called yet. old, exists, todo, count and acc are
\* the locals of the method it will run, res is what the call returns, bare
\* tells whether it touched the backing map without holding the mutex, and
\* after holds the goroutines whose calls had returned when its call began.
Idle ==
    [pc |-> "idle", op |-> NoCall, old |-> ZeroValue, exists |-> FALSE,
     todo |-> {}, count |-> 0, acc |-> <<>>, res |-> NoRet, bare |-> FALSE,
     after |-> {}]

\* The keys and maps the concurrent callers use.
ConcKeys == {1, 2}

ConcMaps == UNION {[D -> Values] : D \in SUBSET ConcKeys}

KeyCalls(ops) ==
    {Call(o, k, 0, EmptyMap, <<>>, "none") : o \in ops, k \in ConcKeys}

ItemCalls(ops) ==
    {Call(o, k, v, EmptyMap, <<>>, "none") : o \in ops, k \in ConcKeys, v \in Values}

PlainCalls(ops) == {Call(o, 0, 0, EmptyMap, <<>>, "none") : o \in ops}

PredicateCalls(ops, name) == {Call(o, 0, 0, EmptyMap, <<>>, name) : o \in ops}

BatchCalls == {Call("PutAll", 0, 0, m, <<>>, "none") : m \in ConcMaps}

\* A Size that reads the length without taking the mutex.
EntryBareSize(o) ==
    CASE o \in {"Max", "Min"} -> "len"
      [] o = "Size" -> "size"
      [] o = "Merge" -> "collect"
      [] o = "PutOnOther" -> "lockother"
      [] OTHER -> "lock"

\* The statement a call starts at: Max and Min look at len(c.items) first,
\* Merge calls other.Collect() first, which takes the mutex of the mapping
\* it reads, a Put on that mapping takes its mutex, and every other method
\* takes the receiver's mutex first.
Entry(o) ==
    CASE o \in {"Max", "Min"} -> "len"
      [] o = "Merge" -> "collect"
      [] o = "PutOnOther" -> "lockother"
      [] OTHER -> "lock"

\* The statement that follows the taking of the mutex.
FirstPc(o) ==
    CASE o \in {"Put", "PutIfAbsent", "Remove", "Get", "Exists"} -> "read"
      [] o = "Size" -> "size"
      [] o = "Clean" -> "store"
      [] o \in {"Collect", "Clone"} -> "copy"
      [] OTHER -> "range"

\* The goroutine's record after a statement that touches c.items.
Touched(g) == [procs[g] EXCEPT !.bare = @ \/ ~Holds(g)]

Frame == UNCHANGED <<impl, origin, size, call, ret, script, other>>

\* The map a Filter or FilterSelf has collected.
MapFromPairs(acc) ==
    [k \in {acc[i][1] : i \in DOMAIN acc} |->
        LET i == CHOOSE j \in DOMAIN acc : acc[j][1] = k IN acc[i][2]]

Column(acc, n) == [i \in DOMAIN acc |-> acc[i][n]]

\* A goroutine calls one of the given methods.
Invoke(g, calls) ==
    /\ procs[g].pc = "idle"
    /\ \E c \in calls :
           procs' = [procs EXCEPT ![g] =
                        [@ EXCEPT !.op = c, !.pc = Entry(c.op),
                                  !.after = {h \in DOMAIN procs : procs[h].pc = "done"}]]
    /\ UNCHANGED <<items, timeline, mu>>
    /\ Frame

\* Max, Min: if len(c.items) == 0 { return NewPair(zero_key, zero_val), 0, false }
LenCheck(g) ==
    /\ procs[g].pc = "len"
    /\ procs' = [procs EXCEPT ![g] =
                    IF Cardinality(DOMAIN items) = 0
                    THEN [Touched(g) EXCEPT !.pc = "done", !.res = NotFound]
                    ELSE [Touched(g) EXCEPT !.pc = "lock"]]
    /\ UNCHANGED <<items, timeline, mu>>
    /\ Frame

\* c.mu.Lock()
Lock(g) ==
    /\ procs[g].pc = "lock"
    /\ procs[g].op.op \in WriteOps \cup {"Merge"}
    /\ CanLock(mu)
    /\ mu' = [mu EXCEPT !.writer = g]
    /\ procs' = [procs EXCEPT ![g].pc = FirstPc(procs[g].op.op)]
    /\ UNCHANGED <<items, timeline>>
    /\ Frame

\* c.mu.RLock()
RLock(g) ==
    /\ procs[g].pc = "lock"
    /\ procs[g].op.op \in ReadOps
    /\ CanRLock(mu)
    /\ mu' = [mu EXCEPT !.readers = @ \cup {g}]
    /\ procs' = [procs EXCEPT ![g].pc = FirstPc(procs[g].op.op)]
    /\ UNCHANGED <<items, timeline>>
    /\ Frame

\* defer c.mu.Unlock() / defer c.mu.RUnlock(), and the return
Unlock(g) ==
    /\ procs[g].pc = "unlock"
    /\ mu' = Release(mu, g)
    /\ procs' = [procs EXCEPT ![g].pc = "done"]
    /\ UNCHANGED <<items, timeline>>
    /\ Frame

\* old, exists := c.items[key] (value, exists in Get; _, exists in Exists)
ReadKey(g) ==
    /\ procs[g].pc = "read"
    /\ LET o      == procs[g].op
           exists == o.key \in DOMAIN items
           next   == CASE o.op = "Put" -> "write"
                       [] o.op = "PutIfAbsent" -> IF exists THEN "unlock" ELSE "write"
                       [] o.op = "Remove" -> "delete"
                       [] OTHER -> "unlock"
       IN  procs' = [procs EXCEPT ![g] =
                        [Touched(g) EXCEPT !.old = OldOf(items, o.key),
                                           !.exists = exists,
                                           !.res = [old |-> OldOf(items, o.key),
                                                    exists |-> exists],
                                           !.pc = next]]
    /\ UNCHANGED <<items, timeline, mu>>
    /\ Frame

\* c.items[key] = item
WriteKey(g) ==
    /\ procs[g].pc = "write"
    /\ items' = MapSet(items, procs[g].op.key, procs[g].op.item)
    /\ procs' = [procs EXCEPT ![g] =
                    [Touched(g) EXCEPT !.pc = IF impl \in Impls THEN "timeline"
                                                                ELSE "unlock"]]
    /\ UNCHANGED <<timeline, mu>>
    /\ Frame

\* delete(c.items, key)
DeleteKey(g) ==
    /\ procs[g].pc = "delete"
    /\ items' = MapDelete(items, procs[g].op.key)
    /\ procs' = [procs EXCEPT ![g] = [Touched(g) EXCEPT !.pc = "unlock"]]
    /\ UNCHANGED <<timeline, mu>>
    /\ Frame

\* The timeline after a bounded mapping has written key: DictionaryLimit
\* looks for the key with IndexOf, calls Remove and appends; DictionaryLimited
\* appends.
Refreshed(t, tl, key) ==
    IF t = "DictionaryLimit"
    THEN LET index == VectorIndexOf(tl, key)
         IN  VectorAppend(IF index # -1 THEN VectorRemove(tl, index) ELSE tl, key)
    ELSE Append(tl, key)

\* Put and PutIfAbsent of a bounded mapping, after the write:
\* the timeline statements.
AppendKey(g) ==
    /\ procs[g].pc = "timeline"
    /\ timeline' = Refreshed(impl, timeline, procs[g].op.key)
    /\ procs' = [procs EXCEPT ![g] = [@ EXCEPT !.count = 1, !.pc = "evict"]]
    /\ UNCHANGED <<items, mu>>
    /\ Frame

\* if c.timeline.Size() > 0 && c.timeline.Size() > c.size { Shift; delete },
\* once in Put and PutIfAbsent, count times in PutAll.
EvictStep(g) ==
    /\ procs[g].pc = "evict"
    /\ LET d == EvictFront(Self, size)
       IN  /\ items' = d.items
           /\ timeline' = d.timeline
    /\ procs' = [procs EXCEPT ![g] =
                    [Touched(g) EXCEPT !.count = @ - 1,
                                       !.pc = IF procs[g].count = 1 THEN "unlock"
                                                                    ELSE "evict"]]
    /\ UNCHANGED mu
    /\ Frame

\* The goroutine's record when its loop has ended: what the method returns
\* and the statement it goes on with.
LoopExit(p) ==
    LET o == p.op.op IN
    CASE o = "PutAll" ->
           [p EXCEPT !.pc = IF impl \in Impls /\ p.count > 0 THEN "evict"
                                                            ELSE "unlock"]
      [] o = "FilterSelf" -> [p EXCEPT !.pc = "store"]
      [] o = "Filter" -> [p EXCEPT !.pc = "unlock", !.res = MapFromPairs(p.acc)]
      [] o \in {"Find", "Values"} ->
           [p EXCEPT !.pc = "unlock", !.res = Column(p.acc, 2)]
      [] o = "Keys" -> [p EXCEPT !.pc = "unlock", !.res = Column(p.acc, 1)]
      [] o = "Pairs" ->
           [p EXCEPT !.pc = "unlock",
                     !.res = [i \in DOMAIN p.acc |-> NewPair(p.acc[i][1], p.acc[i][2])]]
      [] o \in {"Max", "Min"} ->
           [p EXCEPT !.pc = "unlock",
                     !.res = [pair |-> NewPair(p.acc.key, p.acc.value),
                              score |-> p.acc.score, found |-> TRUE]]
      [] OTHER -> [p EXCEPT !.pc = "unlock"]

\* The map PutAll ranges over: the one the caller gave, or in Merge the one
\* other.Collect() returned.
Given(p) == IF p.op.op = "Merge" THEN p.acc ELSE p.op.m

\* for key := range items (PutAll), for k, v := range c.items (the others):
\* the loop begins.
RangeStart(g) ==
    /\ procs[g].pc = "range"
    /\ LET o == procs[g].op
           p == IF o.op \in {"PutAll", "Merge"}
                THEN [procs[g] EXCEPT !.todo = DOMAIN Given(procs[g]),
                                      !.count = 0]
                ELSE [Touched(g) EXCEPT
                         !.todo = DOMAIN items,
                         !.acc = IF o.op \in {"Max", "Min"}
                                 THEN [init |-> FALSE, key |-> 0,
                                       value |-> ZeroValue, score |-> 0]
                                 ELSE <<>>]
       IN  procs' = [procs EXCEPT ![g] =
                        IF p.todo = {} THEN LoopExit(p)
                                       ELSE [p EXCEPT !.pc = "each"]]
    /\ UNCHANGED <<items, timeline, mu>>
    /\ Frame

\* One pass of the loop, for the key k the range gives next.
Pass(g, k) ==
    LET p  == procs[g]
        o  == p.op
        v  == OldOf(items, k)
        t  == [Touched(g) EXCEPT !.todo = @ \ {k}]
        q  == CASE o.op \in {"Find", "Filter", "FilterSelf"} ->
                     IF Predicate(o.mapper, k, v)
                     THEN [t EXCEPT !.acc = Append(@, <<k, v>>)] ELSE t
                [] o.op \in {"Keys", "Values", "Pairs"} ->
                     [t EXCEPT !.acc = Append(@, <<k, v>>)]
                [] o.op = "FindOne" ->
                     IF Predicate(o.mapper, k, v)
                     THEN [t EXCEPT !.todo = {}, !.res = [old |-> v, exists |-> TRUE]]
                     ELSE t
                [] o.op = "Max" ->
                     LET score == Predicate(o.mapper, k, v)
                     IN  IF ~p.acc.init \/ score >= p.acc.score
                         THEN [t EXCEPT !.acc = [init |-> TRUE, key |-> k,
                                                 value |-> v, score |-> score]]
                         ELSE t
                [] o.op = "Min" ->
                     LET score == Predicate(o.mapper, k, v)
                     IN  IF ~p.acc.init \/ score <= p.acc.score
                         THEN [t EXCEPT !.acc = [init |-> TRUE, key |-> k,
                                                 value |-> v, score |-> score]]
                         ELSE t
                [] o.op = "PutAll" ->
                     IF impl \in Impls THEN [t EXCEPT !.count = @ + 1] ELSE t
                [] OTHER -> t
        over == q.todo = {} \/ (o.op = "PutAll" /\ impl \in Impls /\ q.count = size)
    IN  /\ items' = CASE o.op = "Map" -> MapSet(items, k, Predicate(o.mapper, k, v))
                      [] o.op \in {"PutAll", "Merge"} -> MapSet(items, k, Given(p)[k])
                      [] OTHER -> items
        /\ timeline' = IF o.op = "PutAll" /\ impl \in Impls
                       THEN VectorAppend(timeline, k) ELSE timeline
        /\ procs' = [procs EXCEPT ![g] = IF over THEN LoopExit(q) ELSE q]

Each(g) ==
    /\ procs[g].pc = "each"
    /\ \E k \in procs[g].todo : Pass(g, k)
    /\ UNCHANGED mu
    /\ Frame

\* c.items = filter (FilterSelf), c.items = make(map[K]V) (Clean)
StoreMap(g) ==
    /\ procs[g].pc = "store"
    /\ items' = IF procs[g].op.op = "Clean" THEN EmptyMap
                                            ELSE MapFromPairs(procs[g].acc)
    /\ procs' = [procs EXCEPT ![g] = [Touched(g) EXCEPT !.pc = "unlock"]]
    /\ UNCHANGED <<timeline, mu>>
    /\ Frame

\* maps.Clone(c.items) (Collect), maps.Copy(cloned, c.items) (Clone)
CopyMap(g) ==
    /\ procs[g].pc = "copy"
    /\ procs' = [procs EXCEPT ![g] = [Touched(g) EXCEPT !.pc = "unlock", !.res = items]]
    /\ UNCHANGED <<items, timeline, mu>>
    /\ Frame

\* return len(c.items)
SizeRead(g) ==
    /\ procs[g].pc = "size"
    /\ procs' = [procs EXCEPT ![g] =
                    [Touched(g) EXCEPT !.pc = "unlock",
                                       !.res = Cardinality(DOMAIN items)]]
    /\ UNCHANGED <<items, timeline, mu>>
    /\ Frame

\* Merge is `return c.PutAll(other.Collect())`: Collect takes and frees the
\* read lock of the mapping it copies before PutAll takes the receiver's
\* mutex, so the copy and the writes are two lock sections. The call's
\* mapper says which mapping is merged in: "self" (c.Merge(c)) or "other",
\* the second DictionarySync, whose map is other.items and whose mutex is
\* other.mu.
Theirs(g) ==
    IF procs[g].op.mapper = "self"
    THEN [items |-> items, mu |-> mu]
    ELSE [items |-> other.items, mu |-> other.mu]

\* The mutexes after the caller's call left m on the mutex of the mapping
\* it works on.
Locked(g, m) ==
    IF procs[g].op.op = "Merge" /\ procs[g].op.mapper = "self"
    THEN mu' = m /\ UNCHANGED other
    ELSE other' = [other EXCEPT !.mu = m] /\ UNCHANGED mu

\* Collect: c.mu.RLock()
CollectRLock(g) ==
    /\ procs[g].pc = "collect"
    /\ CanRLock(Theirs(g).mu)
    /\ Locked(g, [Theirs(g).mu EXCEPT !.readers = @ \cup {g}])
    /\ procs' = [procs EXCEPT ![g].pc = "clone"]
    /\ UNCHANGED <<items, timeline, impl, origin, size, call, ret, script>>

\* Collect: return maps.Clone(c.items)
CollectClone(g) ==
    /\ procs[g].pc = "clone"
    /\ procs' = [procs EXCEPT ![g] = [@ EXCEPT !.acc = Theirs(g).items,
                                              !.pc = "release"]]
    /\ UNCHANGED <<items, timeline, mu>>
    /\ Frame

\* Collect: defer c.mu.RUnlock(); PutAll comes next.
CollectRUnlock(g) ==
    /\ procs[g].pc = "release"
    /\ Locked(g, Release(Theirs(g).mu, g))
    /\ procs' = [procs EXCEPT ![g].pc = "lock"]
    /\ UNCHANGED <<items, timeline, impl, origin, size, call, ret, script>>

\* Put on the second mapping: c.mu.Lock()
OtherLock(g) ==
    /\ procs[g].pc = "lockother"
    /\ CanLock(other.mu)
    /\ Locked(g, [other.mu EXCEPT !.writer = g])
    /\ procs' = [procs EXCEPT ![g].pc = "writeother"]
    /\ UNCHANGED <<items, timeline, impl, origin, size, call, ret, script>>

\* old, exists := c.items[key]; c.items[key] = item
OtherWrite(g) ==
    /\ procs[g].pc = "writeother"
    /\ LET o == procs[g].op
           r == DictionarySyncPut(DictionarySyncFromMap(other.items),
                                  o.key, o.item)
       IN  /\ other' = [other EXCEPT !.items = r.items]
           /\ procs' = [procs EXCEPT ![g] =
                           [@ EXCEPT !.old = r.old, !.exists = r.exists,
                                     !.res = [old |-> r.old, exists |-> r.exists],
                                     !.pc = "unlockother"]]
    /\ UNCHANGED <<items, timeline, mu, impl, origin, size, call, ret, script>>

\* defer c.mu.Unlock(), and the return
OtherUnlock(g) ==
    /\ procs[g].pc = "unlockother"
    /\ Locked(g, Release(other.mu, g))
    /\ procs' = [procs EXCEPT ![g].pc = "done"]
    /\ UNCHANGED <<items, timeline, impl, origin, size, call, ret, script>>

\* The next statement of goroutine g's call.
Step(g) ==
    \/ LenCheck(g)
    \/ Lock(g)
    \/ RLock(g)
    \/ ReadKey(g)
    \/ WriteKey(g)
    \/ DeleteKey(g)
    \/ AppendKey(g)
    \/ EvictStep(g)
    \/ RangeStart(g)
    \/ Each(g)
    \/ StoreMap(g)
    \/ CopyMap(g)
    \/ SizeRead(g)
    \/ Unlock(g)
    \/ CollectRLock(g)
    \/ CollectClone(g)
    \/ CollectRUnlock(g)
    \/ OtherLock(g)
    \/ OtherWrite(g)
    \/ OtherUnlock(g)

\* The calls the goroutines may make: those of the whole API, the reads and
\* writes of single keys with Map and Size, and the writers of a bounded
\* mapping with Size.
LinCalls ==
    KeyCalls({"Get", "Remove"}) \cup ItemCalls({"Put", "PutIfAbsent"})
        \cup PlainCalls({"Size"}) \cup PredicateCalls({"Map"}, "Increment")

AllCalls ==
    LinCalls \cup KeyCalls({"Exists"}) \cup BatchCalls
        \cup PlainCalls({"ForEach", "Keys", "Values", "Pairs", "Collect",
                         "Clone", "Clean"})
        \cup PredicateCalls({"Find", "FindOne", "Filter", "FilterSelf"},
                            "GreaterThanOne")
        \cup PredicateCalls({"Max", "Min"}, "Value")
        \cup PredicateCalls({"Merge"}, "self")

WriterCalls == ItemCalls({"Put", "PutIfAbsent"}) \cup BatchCalls

\* A DictionarySync made from one of the given maps.
SharedSync(maps) ==
    \E m \in maps :
        Built("DictionarySync", 0, "FromMap", DictionarySyncFromMap(m),
              Call("FromMap", 0, 0, m, <<>>, EmptyMap))

\* A bounded mapping made empty or from a map.
SharedLimit ==
    \E t \in Impls, sz \in Sizes, m \in ConcMaps :
        \E order \in RangeOrders(m) :
            Built(t, sz, IF m = EmptyMap THEN "Empty" ELSE "FromMap",
                  DictionaryLimitFromMap(sz, m, order),
                  Call("FromMap", 0, 0, m, <<>>, EmptyMap))

\* A goroutine started with `go` to make the call c.
Launched(c) == [Idle EXCEPT !.op = c, !.pc = Entry(c.op)]

\* n goroutines that have not called yet.
Started(n) == procs = [g \in 1..n |-> Idle]

Goroutines == DOMAIN procs

AllDone == \A g \in Goroutines : procs[g].pc = "done"

\* Two goroutines, each making one call of the API on a shared
\* DictionarySync or bounded mapping.
InitConc ==
    /\ SharedSync(ConcMaps) \/ SharedLimit
    /\ Started(2)

CallAny == \E g \in Goroutines : Invoke(g, AllCalls)

Run == \E g \in Goroutines : Step(g)

NextConc == CallAny \/ Run

SpecConc == InitConc /\ [][NextConc]_vars

\* Three goroutines, each making one call of Get, Put, PutIfAbsent, Remove,
\* Map or Size on a shared DictionarySync.
InitLin ==
    /\ SharedSync(UNION {[D -> {1}] : D \in SUBSET ConcKeys})
    /\ Started(3)

CallLin == \E g \in Goroutines : Invoke(g, LinCalls)

NextLin == CallLin \/ Run

SpecLin == InitLin /\ [][NextLin]_vars

\* The orders a set of goroutines can be put in.
Orders(S) ==
    {o \in [1..Cardinality(S) -> S] : \A i, j \in DOMAIN o : i # j => o[i] # o[j]}

\* The named function as Map takes it, on the entries of a map.
PredicateOn(name, its) ==
    [kv \in {<<k, its[k]>> : k \in DOMAIN its} |-> Predicate(name, kv[1], kv[2])]

\* What a call of DictionarySync leaves and returns when it runs alone.
Alone(its, c) ==
    LET d == DictionarySyncFromMap(its)
        r == CASE c.op = "Get" -> DictionarySyncGet(d, c.key)
               [] c.op = "Put" -> DictionarySyncPut(d, c.key, c.item)
               [] c.op = "PutIfAbsent" -> DictionarySyncPutIfAbsent(d, c.key, c.item)
               [] c.op = "Remove" -> DictionarySyncRemove(d, c.key)
               [] c.op = "Map" -> DictionarySyncMap(d, PredicateOn(c.mapper, its))
               [] OTHER -> Result(d, ZeroValue, FALSE)
    IN  [items |-> r.items,
         res |-> IF c.op = "Size" THEN DictionarySyncSize(d)
                 ELSE [old |-> r.old, exists |-> r.exists]]

\* The calls of the goroutines, run alone one after the other in the given
\* order from position i on the map its, return what the goroutines got and
\* end with the map as it is now.
RECURSIVE SeqMatches(_, _, _)
SeqMatches(its, order, i) ==
    IF i > Len(order)
    THEN its = items
    ELSE LET r == Alone(its, procs[order[i]].op)
         IN  /\ r.res = procs[order[i]].res
             /\ SeqMatches(r.items, order, i + 1)

\* The order keeps every call that had returned before another began ahead
\* of that other call.
RespectsRealTime(order) ==
    \A i, j \in DOMAIN order : order[i] \in procs[order[j]].after => i < j

\* strconv.Itoa for i >= 0: the decimal digits of i, most significant first.
RECURSIVE Itoa(_)
Itoa(i) == IF i < 10 THEN <<i>> ELSE Itoa(i \div 10) \o <<i % 10>>

\* TestDictionarySyncStress: for each i below n one goroutine calls
\* Put(Itoa(i), i), one calls Map(i -> i + 1) and one calls Remove(Itoa(i)),
\* all on one empty DictionarySync.
StressCall(g) ==
    LET i == (g - 1) \div 3
    IN  CASE g % 3 = 1 -> Call("Put", Itoa(i), i, EmptyMap, <<>>, "none")
          [] g % 3 = 2 -> Call("Map", 0, 0, EmptyMap, <<>>, "Increment")
          [] OTHER -> Call("Remove", Itoa(i), 0, EmptyMap, <<>>, "none")

InitStress ==
    /\ Built("DictionarySync", 0, "Empty", DictionarySyncEmpty,
             Call("Empty", 0, 0, EmptyMap, <<>>, EmptyMap))
    /\ procs = [g \in 1..(3 * StressN) |-> Launched(StressCall(g))]

\* The Go scheduler does not stay idle while some goroutine can run its
\* next statement.
SpecStress == InitStress /\ [][Run]_vars /\ WF_vars(Run)

\* Of the goroutines in left that made the same call and got the same
\* result, g has the lowest number: the order of such calls among themselves
\* makes no difference, so only one is tried.
FirstOfItsKind(g, left) ==
    \A h \in left :
        h < g => \/ procs[h].op.op # procs[g].op.op
                 \/ procs[h].op # procs[g].op
                 \/ procs[h].res # procs[g].res

\* Some order of the calls of the goroutines in left, run alone one after
\* the other on the map its, returns what the goroutines got and ends with
\* the map as it is now.
RECURSIVE SomeOrderGives(_, _)
SomeOrderGives(its, left) ==
    IF left = {}
    THEN its = items
    ELSE \E g \in left :
             LET r == Alone(its, procs[g].op)
             IN  /\ FirstOfItsKind(g, left)
                 /\ r.res = procs[g].res
                 /\ SomeOrderGives(r.items, left \ {g})

\* Three goroutines started on a shared bounded mapping: the first calls
\* Size, the others each call Put, PutIfAbsent or PutAll.
InitCap ==
    /\ SharedLimit
    /\ \E reader \in PlainCalls({"Size"}), w1, w2 \in WriterCalls :
           procs = <<Launched(reader), Launched(w1), Launched(w2)>>

SpecCap == InitCap /\ [][Run]_vars

\* What a call of a bounded mapping can leave and return when it runs alone
\* on the object d: one outcome for each order PutAll's range may take.
Outcomes(d, c) ==
    CASE c.op = "Put" ->
           LET r == PutOf(impl, d, size, c.key, c.item)
           IN  {[d |-> Obj(r.items, r.timeline),
                 res |-> [old |-> r.old, exists |-> r.exists]]}
      [] c.op = "PutIfAbsent" ->
           LET r == PutIfAbsentOf(impl, d, size, c.key, c.item)
           IN  {[d |-> Obj(r.items, r.timeline),
                 res |-> [old |-> r.old, exists |-> r.exists]]}
      [] c.op = "PutAll" ->
           {LET r == DictionaryLimitPutAll(d, size, c.m, order)
            IN  [d |-> Obj(r.items, r.timeline), res |-> NoRet] :
               order \in RangeOrders(c.m)}
      [] OTHER -> {[d |-> d, res |-> DictionarySyncSize(d)]}

\* Some order of the calls of the goroutines in left, run alone one after
\* the other on the object d, returns what the goroutines got and ends with
\* the map and the timeline as they are now.
RECURSIVE SomeOrderLeaves(_, _)
SomeOrderLeaves(d, left) ==
    IF left = {}
    THEN d = Self
    ELSE \E g \in left :
             /\ FirstOfItsKind(g, left)
             /\ \E r \in Outcomes(d, procs[g].op) :
                    /\ r.res = procs[g].res
                    /\ SomeOrderLeaves(r.d, left \ {g})

----------------------------------------------------------------------------
(* Max and Min of Dictionary, DictionarySync and Vector, one call at a time. *)
(* A result carries, next to what the method returns, the number of times   *)
(* the method called the scorer.                                            *)

\* The scores a scorer gives, the scorers of a dictionary (a score for the
\* entry of each key) and of a vector (a score for each value).
Scores == {-1, 0, 1}

DictionaryScorers == [Keys -> Scores]

VectorScorers == [Values -> Scores]

NoBest == [init |-> FALSE, key |-> 0, value |-> ZeroValue, score |-> 0, calls |-> 0]

\* A loop that keeps an entry only when it scores above the best so far,
\* and starts from the zero score.
RECURSIVE MaxLoopFromZero(_, _, _, _, _)
MaxLoopFromZero(its, predicate, order, i, best) ==
    IF i > Len(order)
    THEN best
    ELSE LET k     == order[i]
             score == predicate[k]
         IN  MaxLoopFromZero(its, predicate, order, i + 1,
                 IF score > best.score
                 THEN [init |-> TRUE, key |-> k, value |-> its[k],
                       score |-> score, calls |-> best.calls + 1]
                 ELSE [best EXCEPT !.calls = @ + 1])

\* The loop of Dictionary.Max and DictionarySync.Max, visiting the keys in
\* `order` from position i:
\*   score := predicate(k, v)
\*   if !init || score >= maxScore { maxKey, maxValue, maxScore, init = k, v, score, true }
RECURSIVE MaxLoop(_, _, _, _, _)
MaxLoop(its, predicate, order, i, best) ==
    IF i > Len(order)
    THEN best
    ELSE LET k     == order[i]
             score == predicate[k]
         IN  MaxLoop(its, predicate, order, i + 1,
                 IF ~best.init \/ score >= best.score
                 THEN [init |-> TRUE, key |-> k, value |-> its[k],
                       score |-> score, calls |-> best.calls + 1]
                 ELSE [best EXCEPT !.calls = @ + 1])

\* The loop of Dictionary.Min and DictionarySync.Min: score <= minScore.
RECURSIVE MinLoop(_, _, _, _, _)
MinLoop(its, predicate, order, i, best) ==
    IF i > Len(order)
    THEN best
    ELSE LET k     == order[i]
             score == predicate[k]
         IN  MinLoop(its, predicate, order, i + 1,
                 IF ~best.init \/ score <= best.score
                 THEN [init |-> TRUE, key |-> k, value |-> its[k],
                       score |-> score, calls |-> best.calls + 1]
                 ELSE [best EXCEPT !.calls = @ + 1])

Best(b) ==
    [pair |-> NewPair(b.key, b.value), score |-> b.score, found |-> TRUE,
     calls |-> b.calls]

\* A Max without the check for an empty map.
DictionaryMaxUnchecked(its, predicate, order) ==
    Best(MaxLoop(its, predicate, order, 1, NoBest))

\* Dictionary.Max, and DictionarySync.Max with one caller (the same
\* statements, the loop under the read lock).
DictionaryMax(its, predicate, order) ==
    IF Cardinality(DOMAIN its) = 0
    THEN [pair |-> NewPair(0, ZeroValue), score |-> 0, found |-> FALSE, calls |-> 0]
    ELSE Best(MaxLoop(its, predicate, order, 1, NoBest))

\* Dictionary.Min, and DictionarySync.Min with one caller.
DictionaryMin(its, predicate, order) ==
    IF Cardinality(DOMAIN its) = 0
    THEN [pair |-> NewPair(0, ZeroValue), score |-> 0, found |-> FALSE, calls |-> 0]
    ELSE Best(MinLoop(its, predicate, order, 1, NoBest))

\* The loop of Vector.Max over c.items[1:], from Go index i:
\*   result := predicate(v); if result >= max { item = v; max = result }
RECURSIVE VectorMaxLoop(_, _, _, _)
VectorMaxLoop(list, predicate, i, best) ==
    IF i > Len(list) - 1
    THEN best
    ELSE LET v      == list[i + 1]
             result == predicate[v]
         IN  VectorMaxLoop(list, predicate, i + 1,
                 IF result >= best.score
                 THEN [item |-> v, score |-> result, found |-> TRUE,
                       calls |-> best.calls + 1]
                 ELSE [best EXCEPT !.calls = @ + 1])

\* The loop of Vector.Min: result <= min.
RECURSIVE VectorMinLoop(_, _, _, _)
VectorMinLoop(list, predicate, i, best) ==
    IF i > Len(list) - 1
    THEN best
    ELSE LET v      == list[i + 1]
             result == predicate[v]
         IN  VectorMinLoop(list, predicate, i + 1,
                 IF result <= best.score
                 THEN [item |-> v, score |-> result, found |-> TRUE,
                       calls |-> best.calls + 1]
                 ELSE [best EXCEPT !.calls = @ + 1])

\* Vector.Max: the zero element for an empty vector, else the first element
\* and its score, then the loop over the rest.
VectorMax(list, predicate) ==
    IF Len(list) = 0
    THEN [item |-> ZeroValue, score |-> 0, found |-> FALSE, calls |-> 0]
    ELSE VectorMaxLoop(list, predicate, 1,
             [item |-> list[1], score |-> predicate[list[1]], found |-> TRUE,
              calls |-> 1])

VectorMin(list, predicate) ==
    IF Len(list) = 0
    THEN [item |-> ZeroValue, score |-> 0, found |-> FALSE, calls |-> 0]
    ELSE VectorMinLoop(list, predicate, 1,
             [item |-> list[1], score |-> predicate[list[1]], found |-> TRUE,
              calls |-> 1])

\* A Dictionary or a DictionarySync made from a map, or a Vector made from a
\* list (items then holds the slice).
InitScored ==
    \/ \E t \in {"Dictionary", "DictionarySync"}, m \in MapsUpTo(Cardinality(Keys)) :
           Constructed(t, 0, "FromMap", Obj(m, <<>>),
                       Call("FromMap", 0, 0, m, <<>>, EmptyMap))
    \/ \E list \in Lists :
           Constructed("Vector", 0, "FromList", Obj(list, <<>>),
                       Call("FromList", 0, 0, EmptyMap, list, EmptyMap))

\* The state after Max or Min returned r.
Scored(op, predicate, r) ==
    /\ ret' = r
    /\ call' = Call(op, 0, 0, EmptyMap, <<>>, predicate)
    /\ UNCHANGED <<impl, origin, size, items, timeline, script, mu, procs,
                   other>>

DictMax ==
    /\ impl \in {"Dictionary", "DictionarySync"}
    /\ \E predicate \in DictionaryScorers, order \in RangeOrders(items) :
           Scored("Max", predicate, DictionaryMax(items, predicate, order))

DictMin ==
    /\ impl \in {"Dictionary", "DictionarySync"}
    /\ \E predicate \in DictionaryScorers, order \in RangeOrders(items) :
           Scored("Min", predicate, DictionaryMin(items, predicate, order))

VecMax ==
    /\ impl = "Vector"
    /\ \E predicate \in VectorScorers :
           Scored("Max", predicate, VectorMax(items, predicate))

VecMin ==
    /\ impl = "Vector"
    /\ \E predicate \in VectorScorers :
           Scored("Min", predicate, VectorMin(items, predicate))

NextScored == DictMax \/ DictMin \/ VecMax \/ VecMin

SpecScored == InitScored /\ [][NextScored]_vars

----------------------------------------------------------------------------
(* Dictionary: a plain map, and the mapping Filter returns. The variable     *)
(* other holds the returned mapping; other.shares says whether it is backed  *)
(* by the receiver's map, in which case a write through either mapping is    *)
(* seen through both.                                                        *)

DictionaryFromMap(m) == Obj(m, <<>>)

DictionaryEmpty == DictionaryFromMap(EmptyMap)

\* value, exists := c.items[key]; return value, exists
DictionaryGet(d, key) ==
    Result(d, OldOf(d.items, key), key \in DOMAIN d.items)

\* old, exists := c.Get(key); c.items[key] = item; return old, exists
DictionaryPut(d, key, item) ==
    LET got == DictionaryGet(d, key)
    IN  Result(Obj(MapSet(d.items, key, item), d.timeline), got.old, got.exists)

\* A Remove that reports the entry and leaves it in the map.
DictionaryRemoveKeeps(d, key) ==
    DictionaryGet(d, key)

\* old, exists := c.Get(key); delete(c.items, key); return old, exists
DictionaryRemove(d, key) ==
    LET got == DictionaryGet(d, key)
    IN  Result(Obj(MapDelete(d.items, key), d.timeline), got.old, got.exists)

\* for key, v := range c.items { if predicate(key, v) { filter[key] = v } }
RECURSIVE FilterLoop(_, _, _, _)
FilterLoop(its, predicate, order, filter) ==
    IF order = <<>>
    THEN filter
    ELSE LET key == Head(order)
             v == its[key]
         IN  FilterLoop(its, predicate, Tail(order),
                        IF predicate[key, v] THEN MapSet(filter, key, v)
                                             ELSE filter)

\* What a Filter call leaves: the receiver's map, the returned mapping's map,
\* and whether the two are one map.
Filtered(its, filter, shares) ==
    [items |-> its, result |-> filter, shares |-> shares]

\* A Filter that hands back the receiver's own map when every entry passes.
DictionaryFilterAliased(its, predicate, order) ==
    LET filter == FilterLoop(its, predicate, order, EmptyMap)
    IN  Filtered(its, filter, filter = its)

\* filter := map[K]V{}; ...; return DictionaryFromMap(filter)
\* The returned mapping is built on a map made by the call.
DictionaryFilter(its, predicate, order) ==
    Filtered(its, FilterLoop(its, predicate, order, EmptyMap), FALSE)

\* The same loop between RLock and RUnlock; return DictionarySyncFromMap(filter)
DictionarySyncFilter(its, predicate, order) ==
    Filtered(its, FilterLoop(its, predicate, order, EmptyMap), FALSE)

PlainImpls == {"Dictionary", "DictionarySync"}

PlainPutOf(t, d, key, item) ==
    IF t = "Dictionary" THEN DictionaryPut(d, key, item)
                        ELSE DictionarySyncPut(d, key, item)

PlainRemoveOf(t, d, key) ==
    IF t = "Dictionary" THEN DictionaryRemove(d, key)
                        ELSE DictionarySyncRemove(d, key)

PlainFilterOf(t, its, predicate, order) ==
    IF t = "Dictionary" THEN DictionaryFilter(its, predicate, order)
                        ELSE DictionarySyncFilter(its, predicate, order)

\* The predicates given to Filter.
FilterPredicates == [ConcKeys \X Values -> BOOLEAN]

InitPlain ==
    \E t \in PlainImpls, m \in ConcMaps :
        Constructed(t, 0, "FromMap", DictionaryFromMap(m),
                    Call("FromMap", 0, 0, m, <<>>, EmptyMap))

\* The state after a call on the receiver that left r.
OnReceiver(r, c) ==
    /\ items' = r.items
    /\ timeline' = r.timeline
    /\ other' = IF other.shares THEN [other EXCEPT !.items = r.items] ELSE other
    /\ ret' = [old |-> r.old, exists |-> r.exists]
    /\ call' = c
    /\ UNCHANGED <<impl, origin, size, script, mu, procs>>

\* The state after a call on the returned mapping that left r.
OnFiltered(r, c) ==
    /\ other' = [other EXCEPT !.items = r.items]
    /\ items' = IF other.shares THEN r.items ELSE items
    /\ ret' = [old |-> r.old, exists |-> r.exists]
    /\ call' = c
    /\ UNCHANGED <<impl, origin, size, timeline, script, mu, procs>>

PlainPut ==
    /\ impl \in PlainImpls
    /\ \E key \in ConcKeys, item \in Values :
           OnReceiver(PlainPutOf(impl, Self, key, item),
                      Call("Put", key, item, EmptyMap, <<>>, EmptyMap))

PlainRemove ==
    /\ impl \in PlainImpls
    /\ \E key \in ConcKeys :
           OnReceiver(PlainRemoveOf(impl, Self, key),
                      Call("Remove", key, 0, EmptyMap, <<>>, EmptyMap))

PlainFilter ==
    /\ impl \in PlainImpls
    /\ \E predicate \in FilterPredicates, order \in RangeOrders(items) :
           LET f == PlainFilterOf(impl, items, predicate, order)
           IN  /\ items' = f.items
               /\ other' = [made |-> TRUE, items |-> f.result,
                            shares |-> f.shares]
               /\ call' = Call("Filter", 0, 0, EmptyMap, <<>>, predicate)
               /\ ret' = NoRet
    /\ UNCHANGED <<impl, origin, size, timeline, script, mu, procs>>

FilteredPut ==
    /\ impl \in PlainImpls
    /\ other.made
    /\ \E key \in ConcKeys, item \in Values :
           OnFiltered(PlainPutOf(impl, DictionaryFromMap(other.items), key, item),
                      Call("PutOnFiltered", key, item, EmptyMap, <<>>, EmptyMap))

FilteredRemove ==
    /\ impl \in PlainImpls
    /\ other.made
    /\ \E key \in ConcKeys :
           OnFiltered(PlainRemoveOf(impl, DictionaryFromMap(other.items), key),
                      Call("RemoveOnFiltered", key, 0, EmptyMap, <<>>, EmptyMap))

NextPlain ==
    \/ PlainPut
    \/ PlainRemove
    \/ PlainFilter
    \/ FilteredPut
    \/ FilteredRemove

SpecPlain == InitPlain /\ [][NextPlain]_vars

----------------------------------------------------------------------------
(* Vector used on its own: the slice is held in items, an index is Go's,     *)
(* from 0, and a call returns [old, exists, panic], panic saying whether an  *)
(* index expression ran outside the slice.                                   *)

MaxLen == 3

VectorFromList(list) == list

VectorEmpty == <<>>

\* c.items[index]: the element, or a run-time panic outside 0..len-1.
SliceAt(v, index) ==
    IF index >= 0 /\ index < Len(v)
    THEN [value |-> v[index + 1], panic |-> FALSE]
    ELSE [value |-> ZeroValue, panic |-> TRUE]

\* What a Vector call leaves and returns.
VectorResult(v, old, exists, panic) ==
    [items |-> v, old |-> old, exists |-> exists, panic |-> panic]

\* A Get that indexes without looking at the bounds.
VectorGetUnchecked(v, index) ==
    VectorResult(v, SliceAt(v, index).value, ~SliceAt(v, index).panic,
                 SliceAt(v, index).panic)

\* if index >= 0 && index < len(c.items) { return c.items[index], true }
\* return zero, false
VectorGet(v, index) ==
    IF index >= 0 /\ index < Len(v)
    THEN VectorResult(v, SliceAt(v, index).value, TRUE, SliceAt(v, index).panic)
    ELSE VectorResult(v, ZeroValue, FALSE, FALSE)

\* A Set that returns the element it wrote.
VectorSetReturnsNew(v, index, item) ==
    IF index < 0 \/ index > Len(v) - 1
    THEN VectorResult(v, ZeroValue, FALSE, FALSE)
    ELSE VectorResult([v EXCEPT ![index + 1] = item], item, TRUE, FALSE)

\* if index < 0 || index > len(c.items)-1 { return zero, false }
\* old, exists := c.Get(index); c.items[index] = item; return old, exists
VectorSet(v, index, item) ==
    IF index < 0 \/ index > Len(v) - 1
    THEN VectorResult(v, ZeroValue, FALSE, FALSE)
    ELSE LET got == VectorGet(v, index)
         IN  VectorResult([v EXCEPT ![index + 1] = item], got.old, got.exists,
                          got.panic \/ SliceAt(v, index).panic)

\* if index < 0 || index > len(c.items)-1 { return zero, false }
\* old, exists := c.Get(index); c.items = append(...); return old, exists
VectorRemoved(v, index) ==
    IF index < 0 \/ index > Len(v) - 1
    THEN VectorResult(v, ZeroValue, FALSE, FALSE)
    ELSE LET got == VectorGet(v, index)
         IN  VectorResult(VectorRemove(v, index), got.old, got.exists, got.panic)

\* A Shift that takes the last element.
VectorShiftLast(v) ==
    IF Len(v) = 0
    THEN VectorResult(v, ZeroValue, FALSE, FALSE)
    ELSE VectorResult(SubSeq(v, 1, Len(v) - 1), v[Len(v)], TRUE, FALSE)

\* if len(c.items) == 0 { return zero, false }
\* first := c.items[0]; c.items = c.items[1:]; return first, true
VectorShift(v) ==
    IF Len(v) = 0
    THEN VectorResult(v, ZeroValue, FALSE, FALSE)
    ELSE VectorResult(VectorShiftRest(v), VectorShiftFirst(v), TRUE,
                      SliceAt(v, 0).panic)

\* Unshift: c.items = append(items, c.items...)
VectorUnshift(v, list) == list \o v

\* Merge: c.items = append(c.items, other.items...)
VectorMerge(v, theirs) == v \o theirs

\* Contains with the predicate `predicate(t, x)`: some element t passes.
VectorContains(v, predicate, x) == \E i \in 1..Len(v) : predicate[v[i], x]

\* AppendIfAbsent from position i of list:
\*   for _, v := range items { if !c.Contains(...) { c.items = append(c.items, v) } }
RECURSIVE AppendIfAbsentLoop(_, _, _, _)
AppendIfAbsentLoop(v, predicate, list, i) ==
    IF i > Len(list)
    THEN v
    ELSE AppendIfAbsentLoop(IF VectorContains(v, predicate, list[i])
                            THEN v ELSE VectorAppend(v, list[i]),
                            predicate, list, i + 1)

VectorAppendIfAbsent(v, predicate, list) ==
    AppendIfAbsentLoop(v, predicate, list, 1)

\* FilterSelf from position i:
\*   for _, v := range c.items { if predicate(v) { filter = append(filter, v) } }
RECURSIVE VectorFilterLoop(_, _, _, _)
VectorFilterLoop(v, predicate, i, filter) ==
    IF i > Len(v)
    THEN filter
    ELSE VectorFilterLoop(v, predicate, i + 1,
                          IF predicate[v[i]] THEN VectorAppend(filter, v[i])
                                             ELSE filter)

\* filter := []I{}; the loop; c.items = filter
VectorFilterSelf(v, predicate) == VectorFilterLoop(v, predicate, 1, <<>>)

\* Clean: c.items = make([]I, 0)
VectorClean(v) == <<>>

\* The arrangements of the elements of v.
Arrangements(v) ==
    {[i \in 1..Len(v) |-> v[o[i]]] : o \in RangeOrders(v)}

\* Sort: sort.Slice(c.items, less on the elements). sort.Slice orders the
\* elements by less and promises no order among elements neither of which is
\* less than the other: the slices it may leave.
VectorSort(v, less) ==
    {w \in Arrangements(v) :
        \A i, j \in 1..Len(w) : i < j => ~less[w[j], w[i]]}

\* The first loop of JoinBy from position i:
\*   key := indexer(item); aux := item
\*   if found, ok := dict[key]; ok { aux = predicate(found, item) }
\*   dict[key] = aux
RECURSIVE JoinByLoop(_, _, _, _, _)
JoinByLoop(v, indexer, predicate, i, dict) ==
    IF i > Len(v)
    THEN dict
    ELSE LET key == indexer[v[i]]
             aux == IF key \in DOMAIN dict THEN predicate[dict[key], v[i]]
                                           ELSE v[i]
         IN  JoinByLoop(v, indexer, predicate, i + 1, MapSet(dict, key, aux))

\* JoinBy: the loop, then c.items = make([]I, 0) and
\* for _, v := range dict { c.items = append(c.items, v) }: the slices it may
\* leave, one for each order the range may take.
VectorJoinBy(v, indexer, predicate) ==
    LET dict == JoinByLoop(v, indexer, predicate, 1, EmptyMap)
    IN  {[i \in 1..Len(o) |-> dict[o[i]]] : o \in RangeOrders(dict)}

\* The elements, the slices given to VectorFromList and the indices tried.
Elements == {1, 2, 3}

VectorLists == UNION {[1..n -> Elements] : n \in 0..MaxLen}

Indices == (0 - 2)..(MaxLen + 1)

InitVector ==
    \/ Constructed("Vector", 0, "Empty", Obj(VectorEmpty, <<>>),
                   Call("Empty", 0, 0, EmptyMap, <<>>, EmptyMap))
    \/ \E list \in VectorLists :
           Constructed("Vector", 0, "FromList", Obj(VectorFromList(list), <<>>),
                       Call("FromList", 0, 0, EmptyMap, list, EmptyMap))

\* The state after a Vector call that left r.
VectorReturned(r, c) ==
    /\ items' = r.items
    /\ ret' = [old |-> r.old, exists |-> r.exists, panic |-> r.panic]
    /\ call' = c
    /\ UNCHANGED <<impl, origin, size, timeline, mu, procs, other>>

VecGet ==
    /\ impl = "Vector"
    /\ \E index \in Indices :
           VectorReturned(VectorGet(items, index),
                          Call("Get", index, 0, EmptyMap, <<>>, EmptyMap))
    /\ script' = <<>>

VecSet ==
    /\ impl = "Vector"
    /\ \E index \in Indices, item \in Elements :
           VectorReturned(VectorSet(items, index, item),
                          Call("Set", index, item, EmptyMap, <<>>, EmptyMap))
    /\ script' = <<>>

VecRemove ==
    /\ impl = "Vector"
    /\ \E index \in Indices :
           VectorReturned(VectorRemoved(items, index),
                          Call("Remove", index, 0, EmptyMap, <<>>, EmptyMap))
    /\ script' = <<>>

VecAppend ==
    /\ impl = "Vector"
    /\ Len(items) < MaxLen
    /\ \E item \in Elements :
           VectorReturned(VectorResult(VectorAppend(items, item),
                                       ZeroValue, FALSE, FALSE),
                          Call("Append", 0, item, EmptyMap, <<>>, EmptyMap))
    /\ script' = <<>>

\* script keeps the run of Shift calls made in a row: the slice each one
\* found and what it returned. A run longer than a full drain starts afresh.
VecShift ==
    /\ impl = "Vector"
    /\ VectorReturned(VectorShift(items),
                      Call("Shift", 0, 0, EmptyMap, <<>>, EmptyMap))
    /\ script' = (IF Len(script) > MaxLen THEN <<>> ELSE script)
                    \o <<[before |-> items, ret |-> ret']>>

\* The slices given to Unshift, Merge and AppendIfAbsent.
ShortLists == UNION {[1..n -> Elements] : n \in 1..MaxList}

\* The functions given to FilterSelf (one element, the larger elements), to
\* AppendIfAbsent (equal, equal in parity), to Sort (ascending, descending,
\* odd before even) and to JoinBy: the key an element is filed under (its
\* parity or its digits, as a string) and the element kept of two with one
\* key (the first, the last).
VectorPredicates ==
    {[x \in Elements |-> x = 1], [x \in Elements |-> x > 1]}

Equivalences ==
    {[p \in Elements \X Elements |-> p[1] = p[2]],
     [p \in Elements \X Elements |-> p[1] % 2 = p[2] % 2]}

Lesses ==
    {[p \in Elements \X Elements |-> p[1] < p[2]],
     [p \in Elements \X Elements |-> p[1] > p[2]],
     [p \in Elements \X Elements |-> p[1] % 2 > p[2] % 2]}

Indexers ==
    {[x \in Elements |-> Itoa(x % 2)], [x \in Elements |-> Itoa(x)]}

Joiners ==
    {[p \in Elements \X Elements |-> p[1]],
     [p \in Elements \X Elements |-> p[2]]}

\* The state after a Vector call that left v and returned the receiver.
VectorChained(v, c) ==
    /\ VectorReturned(VectorResult(v, ZeroValue, FALSE, FALSE), c)
    /\ script' = <<>>

VecUnshift ==
    /\ impl = "Vector"
    /\ \E list \in ShortLists :
           /\ Len(items) + Len(list) <= MaxLen
           /\ VectorChained(VectorUnshift(items, list),
                            Call("Unshift", 0, 0, EmptyMap, list, EmptyMap))

VecMerge ==
    /\ impl = "Vector"
    /\ \E list \in ShortLists :
           /\ Len(items) + Len(list) <= MaxLen
           /\ VectorChained(VectorMerge(items, VectorFromList(list)),
                            Call("Merge", 0, 0, EmptyMap, list, EmptyMap))

VecAppendIfAbsent ==
    /\ impl = "Vector"
    /\ \E list \in ShortLists, predicate \in Equivalences :
           /\ Len(items) + Len(list) <= MaxLen
           /\ VectorChained(VectorAppendIfAbsent(items, predicate, list),
                            Call("AppendIfAbsent", 0, 0, EmptyMap, list, predicate))

VecFilterSelf ==
    /\ impl = "Vector"
    /\ \E predicate \in VectorPredicates :
           VectorChained(VectorFilterSelf(items, predicate),
                         Call("FilterSelf", 0, 0, EmptyMap, <<>>, predicate))

VecClean ==
    /\ impl = "Vector"
    /\ VectorChained(VectorClean(items),
                     Call("Clean", 0, 0, EmptyMap, <<>>, EmptyMap))

VecSort ==
    /\ impl = "Vector"
    /\ \E less \in Lesses :
           \E sorted \in VectorSort(items, less) :
               VectorChained(sorted, Call("Sort", 0, 0, EmptyMap, <<>>, less))

VecJoinBy ==
    /\ impl = "Vector"
    /\ \E indexer \in Indexers, predicate \in Joiners :
           \E joined \in VectorJoinBy(items, indexer, predicate) :
               VectorChained(joined,
                             Call("JoinBy", 0, 0, EmptyMap, <<>>,
                                  <<indexer, predicate>>))

NextVector ==
    \/ VecGet
    \/ VecSet
    \/ VecRemove
    \/ VecAppend
    \/ VecShift
    \/ VecUnshift
    \/ VecMerge
    \/ VecAppendIfAbsent
    \/ VecFilterSelf
    \/ VecClean
    \/ VecSort
    \/ VecJoinBy

SpecVector == InitVector /\ [][NextVector]_vars

----------------------------------------------------------------------------
(* The read operations a bounded mapping takes from the DictionarySync it    *)
(* embeds. Each returns the object it leaves with what it returns; `order`   *)
(* is the order in which the range loop visits the keys.                     *)

\* _, exists := c.items[key]; return exists
DictionarySyncExists(d, key) ==
    Result(d, key \in DOMAIN d.items, key \in DOMAIN d.items)

\* for k, v := range c.items { if predicate(k, v) { filter = append(filter, v) } }
RECURSIVE FindLoop(_, _, _, _)
FindLoop(its, predicate, order, filter) ==
    IF order = <<>>
    THEN filter
    ELSE LET k == Head(order)
             v == its[k]
         IN  FindLoop(its, predicate, Tail(order),
                      IF predicate[k, v] THEN Append(filter, v) ELSE filter)

DictionarySyncFind(d, predicate, order) ==
    Result(d, FindLoop(d.items, predicate, order, <<>>), TRUE)

\* for k, v := range c.items { if predicate(k, v) { return v, true } }
\* return zero, false
RECURSIVE FindOneLoop(_, _, _)
FindOneLoop(its, predicate, order) ==
    IF order = <<>>
    THEN [value |-> ZeroValue, found |-> FALSE]
    ELSE LET k == Head(order)
             v == its[k]
         IN  IF predicate[k, v]
             THEN [value |-> v, found |-> TRUE]
             ELSE FindOneLoop(its, predicate, Tail(order))

DictionarySyncFindOne(d, predicate, order) ==
    LET one == FindOneLoop(d.items, predicate, order)
    IN  Result(d, one.value, one.found)

\* for k, v := range c.items { predicate(k, v) }; return c
\* The predicate gets copies of the key and the value.
DictionarySyncForEach(d, order) ==
    Result(d, Len(order), TRUE)

\* for key := range c.items { keys = append(keys, key) }
DictionarySyncKeys(d, order) ==
    Result(d, [i \in DOMAIN order |-> order[i]], TRUE)

\* for key := range c.items { values = append(values, c.items[key]) }
DictionarySyncValues(d, order) ==
    Result(d, [i \in DOMAIN order |-> d.items[order[i]]], TRUE)

\* for k, v := range c.items { pairs = append(pairs, NewPair(k, v)) }
DictionarySyncPairs(d, order) ==
    Result(d, [i \in DOMAIN order |-> NewPair(order[i], d.items[order[i]])], TRUE)

\* return maps.Clone(c.items)
DictionarySyncCollect(d) ==
    Result(d, [k \in DOMAIN d.items |-> d.items[k]], TRUE)

\* cloned := make(map[K]V); maps.Copy(cloned, c.items)
\* return DictionarySyncFromMap(cloned)
DictionarySyncClone(d) ==
    Result(d, DictionarySyncFromMap([k \in DOMAIN d.items |-> d.items[k]]), TRUE)

\* Max and Min of the embedded DictionarySync, one caller.
DictionarySyncMax(d, predicate, order) ==
    LET best == DictionaryMax(d.items, predicate, order)
    IN  Result(d, [pair |-> best.pair, score |-> best.score], best.found)

DictionarySyncMin(d, predicate, order) ==
    LET best == DictionaryMin(d.items, predicate, order)
    IN  Result(d, [pair |-> best.pair, score |-> best.score], best.found)

\* A Get that also moves the key it found to the back of the timeline.
DictionaryLimitGetRefreshes(d, key) ==
    IF key \in DOMAIN d.items
    THEN Result(Obj(d.items,
                    Append(SelectSeq(d.timeline, LAMBDA t : t # key), key)),
                d.items[key], TRUE)
    ELSE Result(d, ZeroValue, FALSE)

\* Get on a bounded mapping: neither type defines it, so the call runs
\* DictionarySync.Get on the embedded map.
DictionaryLimitGet(d, key) ==
    DictionarySyncGet(d, key)

\* The predicates given to Find, FindOne and Filter: one key, the other keys,
\* the larger value.  The scores given to Max and Min: one key above the rest.
ReadPredicates ==
    {[p \in Keys \X Values |-> p[1] = 1],
     [p \in Keys \X Values |-> p[1] # 1],
     [p \in Keys \X Values |-> p[2] > 1]}

ReadScorers == {[k \in Keys |-> IF k = top THEN 1 ELSE 0] : top \in Keys}

\* The state after a read that left r.
ReadReturned(r, c) ==
    /\ items' = r.items
    /\ timeline' = r.timeline
    /\ ret' = [old |-> r.old, exists |-> r.exists]
    /\ call' = c
    /\ UNCHANGED <<impl, origin, size, script, mu, procs>>

KeyRead(op, key) == Call(op, key, 0, EmptyMap, <<>>, EmptyMap)

PlainRead(op) == Call(op, 0, 0, EmptyMap, <<>>, EmptyMap)

PredicateRead(op, predicate) == Call(op, 0, 0, EmptyMap, <<>>, predicate)

LimitGet ==
    /\ impl \in Impls
    /\ \E key \in Keys : ReadReturned(DictionaryLimitGet(Self, key), KeyRead("Get", key))
    /\ UNCHANGED other

LimitExists ==
    /\ impl \in Impls
    /\ \E key \in Keys :
           ReadReturned(DictionarySyncExists(Self, key), KeyRead("Exists", key))
    /\ UNCHANGED other

LimitSize ==
    /\ impl \in Impls
    /\ ReadReturned(Result(Self, DictionarySyncSize(Self), TRUE), PlainRead("Size"))
    /\ UNCHANGED other

LimitFind ==
    /\ impl \in Impls
    /\ \E predicate \in ReadPredicates, order \in RangeOrders(items) :
           ReadReturned(DictionarySyncFind(Self, predicate, order),
                        PredicateRead("Find", predicate))
    /\ UNCHANGED other

LimitFindOne ==
    /\ impl \in Impls
    /\ \E predicate \in ReadPredicates, order \in RangeOrders(items) :
           ReadReturned(DictionarySyncFindOne(Self, predicate, order),
                        PredicateRead("FindOne", predicate))
    /\ UNCHANGED other

LimitForEach ==
    /\ impl \in Impls
    /\ \E order \in RangeOrders(items) :
           ReadReturned(DictionarySyncForEach(Self, order), PlainRead("ForEach"))
    /\ UNCHANGED other

LimitKeys ==
    /\ impl \in Impls
    /\ \E order \in RangeOrders(items) :
           ReadReturned(DictionarySyncKeys(Self, order), PlainRead("Keys"))
    /\ UNCHANGED other

LimitValues ==
    /\ impl \in Impls
    /\ \E order \in RangeOrders(items) :
           ReadReturned(DictionarySyncValues(Self, order), PlainRead("Values"))
    /\ UNCHANGED other

LimitPairs ==
    /\ impl \in Impls
    /\ \E order \in RangeOrders(items) :
           ReadReturned(DictionarySyncPairs(Self, order), PlainRead("Pairs"))
    /\ UNCHANGED other

LimitCollect ==
    /\ impl \in Impls
    /\ ReadReturned(DictionarySyncCollect(Self), PlainRead("Collect"))
    /\ UNCHANGED other

LimitClone ==
    /\ impl \in Impls
    /\ ReadReturned(DictionarySyncClone(Self), PlainRead("Clone"))
    /\ UNCHANGED other

LimitMax ==
    /\ impl \in Impls
    /\ \E predicate \in ReadScorers, order \in RangeOrders(items) :
           ReadReturned(DictionarySyncMax(Self, predicate, order),
                        PredicateRead("Max", predicate))
    /\ UNCHANGED other

LimitMin ==
    /\ impl \in Impls
    /\ \E predicate \in ReadScorers, order \in RangeOrders(items) :
           ReadReturned(DictionarySyncMin(Self, predicate, order),
                        PredicateRead("Min", predicate))
    /\ UNCHANGED other

\* Filter hands back a DictionarySync built on a map of its own; the caller
\* is given that mapping and keeps no other.
LimitFilter ==
    /\ impl \in Impls
    /\ \E predicate \in ReadPredicates, order \in RangeOrders(items) :
           LET f == DictionarySyncFilter(items, predicate, order)
           IN  ReadReturned(Result(Obj(f.items, timeline),
                                   DictionarySyncFromMap(f.result), TRUE),
                            PredicateRead("Filter", predicate))
    /\ UNCHANGED other

ReadNames ==
    {"Get", "Exists", "Size", "Find", "FindOne", "ForEach", "Keys", "Values",
     "Pairs", "Collect", "Clone", "Max", "Min", "Filter"}

NextReads ==
    \/ Put
    \/ LimitGet
    \/ LimitExists
    \/ LimitSize
    \/ LimitFind
    \/ LimitFindOne
    \/ LimitForEach
    \/ LimitKeys
    \/ LimitValues
    \/ LimitPairs
    \/ LimitCollect
    \/ LimitClone
    \/ LimitMax
    \/ LimitMin
    \/ LimitFilter

\* A mapping created empty, written by Put and read.
SpecReads == InitEmpty /\ [][NextReads]_vars

----------------------------------------------------------------------------
(* The bounded mapping with the write operations it takes from the           *)
(* DictionarySync it embeds: Remove, FilterSelf and Clean are not redefined  *)
(* by DictionaryLimit or DictionaryLimited, so a call runs the DictionarySync *)
(* method on the embedded map. In this part script holds one element: the    *)
(* object as it was before the last call.                                    *)

\* filter := map[K]V{}; the Filter loop; c.items = filter; return c
DictionarySyncFilterSelf(d, predicate, order) ==
    Result(Obj(FilterLoop(d.items, predicate, order, EmptyMap), d.timeline),
           ZeroValue, FALSE)

\* c.items = make(map[K]V); return c
DictionarySyncClean(d) ==
    Result(Obj(EmptyMap, d.timeline), ZeroValue, FALSE)

Before == <<Self>>

OwnedPut ==
    /\ impl \in Impls
    /\ \E key \in Keys, item \in Values : DoPut(key, item)
    /\ script' = Before

OwnedPutIfAbsent ==
    /\ impl \in Impls
    /\ \E key \in Keys, item \in Values : DoPutIfAbsent(key, item)
    /\ script' = Before

OwnedRemove ==
    /\ impl \in Impls
    /\ \E key \in Keys :
           Returned(DictionarySyncRemove(Self, key),
                    Call("Remove", key, 0, EmptyMap, <<>>, EmptyMap))
    /\ script' = Before

OwnedFilterSelf ==
    /\ impl \in Impls
    /\ \E predicate \in ReadPredicates, order \in RangeOrders(items) :
           Returned(DictionarySyncFilterSelf(Self, predicate, order),
                    Call("FilterSelf", 0, 0, EmptyMap, <<>>, predicate))
    /\ script' = Before

OwnedClean ==
    /\ impl \in Impls
    /\ Returned(DictionarySyncClean(Self),
                Call("Clean", 0, 0, EmptyMap, <<>>, EmptyMap))
    /\ script' = Before

NextOwned ==
    \/ OwnedPut
    \/ OwnedPutIfAbsent
    \/ OwnedRemove
    \/ OwnedFilterSelf
    \/ OwnedClean

SpecOwned == Init /\ [][NextOwned]_vars

\* A scripted caller: on an empty mapping of capacity C it Puts C distinct
\* keys, Removes one of them, then writes a key that is not in the mapping.
ScriptRemove ==
    /\ Len(script) = size
    /\ \E i \in 1..Len(script) :
           Returned(DictionarySyncRemove(Self, script[i].key),
                    Call("Remove", script[i].key, 0, EmptyMap, <<>>, EmptyMap))
    /\ script' = Append(script, call')

ScriptReuse ==
    /\ Len(script) = size + 1
    /\ \E key \in ScriptKeys \ DOMAIN items, item \in Values :
           DoPut(key, item) \/ DoPutIfAbsent(key, item)
    /\ script' = Append(script, call')

NextReuse == ScriptFill \/ ScriptRemove \/ ScriptReuse

SpecReuse == InitScript /\ [][NextReuse]_vars

----------------------------------------------------------------------------
(* Merge on a bounded mapping. Neither bounded type defines Merge, so the    *)
(* call runs DictionarySync.Merge with the embedded DictionarySync as its    *)
(* receiver, and the PutAll it calls is DictionarySync.PutAll.               *)

\* for key := range items { c.items[key] = items[key] }; return c
DictionarySyncPutAll(d, m) ==
    Result(Obj([k \in DOMAIN d.items \cup DOMAIN m |->
                    IF k \in DOMAIN m THEN m[k] ELSE d.items[k]],
               d.timeline),
           ZeroValue, FALSE)

\* return c.PutAll(other.Collect())
DictionarySyncMerge(d, theirs) ==
    DictionarySyncPutAll(d, DictionarySyncCollect(theirs).old)

\* The mappings given to Merge.
MergeMaps == MapsUpTo(Cardinality(Keys))

LimitMerge ==
    /\ impl \in Impls
    /\ \E m \in MergeMaps :
           Returned(DictionarySyncMerge(Self, DictionarySyncFromMap(m)),
                    Call("Merge", 0, 0, m, <<>>, EmptyMap))
    /\ UNCHANGED script

NextMerge == Next \/ LimitMerge

SpecMerge == Init /\ [][NextMerge]_vars

\* Three goroutines started on two DictionarySyncs c and other: the first
\* calls c.Merge(other), the second other.Put(k, v), the third c.Get(k).
InitShared ==
    \E m \in ConcMaps, theirs \in ConcMaps, k \in ConcKeys, v \in Values :
        /\ impl = "DictionarySync"
        /\ origin = "FromMap"
        /\ size = 0
        /\ items = DictionarySyncFromMap(m).items
        /\ timeline = DictionarySyncFromMap(m).timeline
        /\ call = Call("FromMap", 0, 0, m, <<>>, EmptyMap)
        /\ ret = NoRet
        /\ script = <<>>
        /\ mu = Unlocked
        /\ other = [made |-> TRUE, items |-> DictionarySyncFromMap(theirs).items,
                    shares |-> FALSE, mu |-> Unlocked]
        /\ procs = <<Launched(Call("Merge", 0, 0, EmptyMap, <<>>, "other")),
                     Launched(Call("PutOnOther", k, v, EmptyMap, <<>>, "none")),
                     Launched(Call("Get", k, 0, EmptyMap, <<>>, "none"))>>

SpecShared == InitShared /\ [][Run]_vars

----------------------------------------------------------------------------
(* A scripted caller: on an empty mapping of capacity C it Puts C distinct   *)
(* keys, then calls PutAll with a map of keys it has not written.            *)

\* The keys of the fill, and the keys kept for the map given to PutAll: one
\* more than the largest capacity.
FillKeys == 1..MaxSize

FreshKeys == (MaxSize + 1)..(2 * MaxSize + 1)

FreshBatches ==
    UNION {{[m |-> m, order |-> o] : o \in RangeOrders(m)} :
              m \in UNION {[D -> Values] : D \in SUBSET FreshKeys \ {{}}}}

InitBatch ==
    \E t \in Impls, sz \in Sizes :
        Constructed(t, sz, "Empty", DictionaryLimitEmpty(sz),
                    Call("Empty", 0, 0, EmptyMap, <<>>, EmptyMap))

BatchFill ==
    /\ Len(script) < size
    /\ \E key \in FillKeys \ ScriptWritten, item \in Values : DoPut(key, item)
    /\ script' = Append(script, call')

BatchPutAll ==
    /\ Len(script) = size
    /\ \E b \in FreshBatches : DoPutAll(b.m, b.order)
    /\ script' = Append(script, call')

NextBatch == BatchFill \/ BatchPutAll

SpecBatch == InitBatch /\ [][NextBatch]_vars

----------------------------------------------------------------------------
(* Vector: Slice, SliceSelf, Pages and Page. A call returns what it returned *)
(* in old; panic says whether the slice expression ran outside the slice.    *)

\* c.items[lo:hi]: the elements from lo up to hi, or a run-time panic unless
\* 0 <= lo <= hi <= cap. Slice never passes an hi beyond the length.
SliceExpr(v, lo, hi) ==
    IF lo >= 0 /\ lo <= hi /\ hi <= Len(v)
    THEN [value |-> SubSeq(v, lo + 1, hi), panic |-> FALSE]
    ELSE [value |-> <<>>, panic |-> TRUE]

\* if start < 0 { start = 0 }; if start > len(c.items)-1 { start = len(c.items) }
ClampStart(v, start) ==
    LET s == IF start < 0 THEN 0 ELSE start
    IN  IF s > Len(v) - 1 THEN Len(v) ELSE s

\* if end > len(c.items)-1 { end = len(c.items) }
ClampEnd(v, end) ==
    IF end > Len(v) - 1 THEN Len(v) ELSE end

\* return VectorFromList(c.items[start:end])
VectorSlice(v, start, end) ==
    LET e == SliceExpr(v, ClampStart(v, start), ClampEnd(v, end))
    IN  VectorResult(v, e.value, ~e.panic, e.panic)

\* c.items = c.items[start:end]; return c
VectorSliceSelf(v, start, end) ==
    LET e == SliceExpr(v, ClampStart(v, start), ClampEnd(v, end))
    IN  VectorResult(IF e.panic THEN v ELSE e.value, e.value, ~e.panic, e.panic)

\* A page count that drops the last, shorter page.
VectorPagesFloor(v, sz) ==
    Len(v) \div sz

\* int(math.Ceil(float64(len(c.items)) / float64(size))), size >= 1
VectorPages(v, sz) ==
    IF Len(v) % sz = 0 THEN Len(v) \div sz ELSE Len(v) \div sz + 1

\* if page == 0 { page = 1 }
\* start := (page - 1) * size; end := page * size; return c.Slice(start, end)
VectorPage(v, page, sz) ==
    LET p == IF page = 0 THEN 1 ELSE page
    IN  VectorSlice(v, (p - 1) * sz, p * sz)

\* The page sizes and page numbers asked for.
PageSizes == 1..(MaxLen + 1)

PageNumbers == 0..(MaxLen + 1)

VecSlice ==
    /\ impl = "Vector"
    /\ \E start \in Indices, end \in Indices :
           VectorReturned(VectorSlice(items, start, end),
                          Call("Slice", start, end, EmptyMap, <<>>, EmptyMap))
    /\ script' = <<>>

VecSliceSelf ==
    /\ impl = "Vector"
    /\ \E start \in Indices, end \in Indices :
           VectorReturned(VectorSliceSelf(items, start, end),
                          Call("SliceSelf", start, end, EmptyMap, <<>>, EmptyMap))
    /\ script' = <<>>

VecPages ==
    /\ impl = "Vector"
    /\ \E sz \in PageSizes :
           VectorReturned(VectorResult(items, VectorPages(items, sz), TRUE, FALSE),
                          Call("Pages", 0, sz, EmptyMap, <<>>, EmptyMap))
    /\ script' = <<>>

VecPage ==
    /\ impl = "Vector"
    /\ \E page \in PageNumbers, sz \in PageSizes :
           VectorReturned(VectorPage(items, page, sz),
                          Call("Page", page, sz, EmptyMap, <<>>, EmptyMap))
    /\ script' = <<>>

NextSlice == VecSlice \/ VecSliceSelf \/ VecPages \/ VecPage \/ VecAppend

SpecSlice == InitVector /\ [][NextSlice]_vars

----------------------------------------------------------------------------
(* A bounded mapping created empty and an unbounded DictionarySync given the *)
(* same Put, PutIfAbsent and PutAll calls. script holds the calls made so    *)
(* far and other.items the contents of the DictionarySync.                   *)

\* The longest run of calls followed.
MaxCalls == 3

InitLog ==
    \E t \in Impls, sz \in Sizes :
        Constructed(t, sz, "Empty", DictionaryLimitEmpty(sz),
                    Call("Empty", 0, 0, EmptyMap, <<>>, EmptyMap))

\* The state after a call that left r on the bounded mapping and twin on the
\* DictionarySync.
Logged(r, c, twin) ==
    /\ items' = r.items
    /\ timeline' = r.timeline
    /\ ret' = [old |-> r.old, exists |-> r.exists]
    /\ call' = c
    /\ script' = Append(script, c)
    /\ other' = [made |-> TRUE, items |-> twin.items, shares |-> FALSE]
    /\ UNCHANGED <<impl, origin, size, mu, procs>>

LogPut ==
    /\ Len(script) < MaxCalls
    /\ \E key \in Keys, item \in Values :
           Logged(PutOf(impl, Self, size, key, item),
                  Call("Put", key, item, EmptyMap, <<>>, EmptyMap),
                  DictionarySyncPut(DictionarySyncFromMap(other.items),
                                    key, item))

LogPutIfAbsent ==
    /\ Len(script) < MaxCalls
    /\ \E key \in Keys, item \in Values :
           Logged(PutIfAbsentOf(impl, Self, size, key, item),
                  Call("PutIfAbsent", key, item, EmptyMap, <<>>, EmptyMap),
                  DictionarySyncPutIfAbsent(DictionarySyncFromMap(other.items),
                                            key, item))

LogPutAll ==
    /\ Len(script) < MaxCalls
    /\ \E b \in Batches :
           Logged(DictionaryLimitPutAll(Self, size, b.m, b.order),
                  Call("PutAll", 0, 0, b.m, <<>>, EmptyMap),
                  DictionarySyncPutAll(DictionarySyncFromMap(other.items),
                                       b.m))

NextLog == LogPut \/ LogPutIfAbsent \/ LogPutAll

SpecLog == InitLog /\ [][NextLog]_vars

----------------------------------------------------------------------------
(* A shared DictionarySync or bounded mapping. One caller first makes Put    *)
(* calls on a bounded mapping, one after the other; then, with some key k    *)
(* absent from the map, three goroutines are started: goroutine g calls      *)
(* PutIfAbsent(k, g), so the value a call brings tells the calls apart.      *)

OnceCall(k, g) == Call("PutIfAbsent", k, g, EmptyMap, <<>>, "none")

\* A mapping as its constructor left it, no goroutine started.
InitOnce ==
    /\ SharedSync(ConcMaps) \/ SharedLimit
    /\ procs = <<>>

\* A Put by the one caller, before the goroutines are started.
OnceSetUp ==
    /\ procs = <<>>
    /\ impl \in Impls
    /\ Put

\* go PutIfAbsent(k, g), three times, for a key the map does not hold.
OnceLaunch ==
    /\ procs = <<>>
    /\ \E k \in ConcKeys :
           /\ k \notin DOMAIN items
           /\ procs' = [g \in 1..3 |-> Launched(OnceCall(k, g))]
    /\ UNCHANGED <<items, timeline, mu>>
    /\ Frame

NextOnce == OnceSetUp \/ OnceLaunch \/ Run

SpecOnce == InitOnce /\ [][NextOnce]_vars

----------------------------------------------------------------------------
(* A DictionarySync and a Dictionary made from equal maps, one caller making *)
(* the same call on both, one call at a time. items and ret are the          *)
(* DictionarySync's contents and what its call returned; other.items and     *)
(* script[1] are the Dictionary's.                                           *)

\* return len(c.items)
DictionarySize(d) == Cardinality(DOMAIN d.items)

\* _, exists := c.items[key]; return exists
DictionaryExists(d, key) ==
    Result(d, key \in DOMAIN d.items, key \in DOMAIN d.items)

\* A PutIfAbsent that writes whether or not the key is present.
DictionaryPutIfAbsentAlways(d, key, item) ==
    DictionaryPut(d, key, item)

\* old, exists := c.Get(key); if !exists { c.Put(key, item) }; return old, exists
DictionaryPutIfAbsent(d, key, item) ==
    LET got == DictionaryGet(d, key)
        put == IF ~got.exists THEN DictionaryPut(d, key, item) ELSE got
    IN  Result(Obj(put.items, put.timeline), got.old, got.exists)

\* for key := range items { c.items[key] = items[key] }; return c
DictionaryPutAll(d, m) ==
    Result(Obj([k \in DOMAIN d.items \cup DOMAIN m |->
                    IF k \in DOMAIN m THEN m[k] ELSE d.items[k]],
               d.timeline),
           ZeroValue, FALSE)

\* filter := map[K]V{}; the Filter loop; c.items = filter; return c
DictionaryFilterSelf(d, predicate, order) ==
    Result(Obj(FilterLoop(d.items, predicate, order, EmptyMap), d.timeline),
           ZeroValue, FALSE)

\* for k, v := range c.items { c.items[k] = predicate(k, v) }; return c
DictionaryMap(d, predicate) ==
    Result(Obj([k \in DOMAIN d.items |-> predicate[k, d.items[k]]], d.timeline),
           ZeroValue, FALSE)

\* c.items = make(map[K]V); return c
DictionaryClean(d) ==
    Result(Obj(EmptyMap, d.timeline), ZeroValue, FALSE)

\* return c.items: the map itself, not a copy
DictionaryCollect(d) == d.items

\* return c.PutAll(other.Collect())
DictionaryMerge(d, theirs) == DictionaryPutAll(d, DictionaryCollect(theirs))

\* The Dictionary of the pair.
Twin == DictionaryFromMap(other.items)

\* What a call returned.
Got(r) == [old |-> r.old, exists |-> r.exists]

\* DictionarySyncFromMap(m) and DictionaryFromMap(m'), m' a copy of m.
InitTwin ==
    \E m \in MapsUpTo(Cardinality(Keys)) :
        /\ impl = "DictionarySync"
        /\ origin = "FromMap"
        /\ size = 0
        /\ items = DictionarySyncFromMap(m).items
        /\ timeline = DictionarySyncFromMap(m).timeline
        /\ call = Call("FromMap", 0, 0, m, <<>>, EmptyMap)
        /\ ret = NoRet
        /\ script = <<NoRet>>
        /\ mu = Unlocked
        /\ procs = <<>>
        /\ other = [made |-> TRUE, items |-> DictionaryFromMap(m).items,
                    shares |-> FALSE]

\* The state after a call that left r on the DictionarySync and t on the
\* Dictionary.
Both(r, t, c) ==
    /\ items' = r.items
    /\ timeline' = r.timeline
    /\ ret' = Got(r)
    /\ call' = c
    /\ script' = <<Got(t)>>
    /\ other' = [other EXCEPT !.items = t.items]
    /\ UNCHANGED <<impl, origin, size, mu, procs>>

TwinGet ==
    \E key \in Keys :
        Both(DictionarySyncGet(Self, key), DictionaryGet(Twin, key),
             Call("Get", key, 0, EmptyMap, <<>>, EmptyMap))

TwinExists ==
    \E key \in Keys :
        Both(DictionarySyncExists(Self, key), DictionaryExists(Twin, key),
             Call("Exists", key, 0, EmptyMap, <<>>, EmptyMap))

TwinSize ==
    Both(Result(Self, DictionarySyncSize(Self), FALSE),
         Result(Twin, DictionarySize(Twin), FALSE),
         Call("Size", 0, 0, EmptyMap, <<>>, EmptyMap))

TwinPut ==
    \E key \in Keys, item \in Values :
        Both(DictionarySyncPut(Self, key, item), DictionaryPut(Twin, key, item),
             Call("Put", key, item, EmptyMap, <<>>, EmptyMap))

TwinPutIfAbsent ==
    \E key \in Keys, item \in Values :
        Both(DictionarySyncPutIfAbsent(Self, key, item),
             DictionaryPutIfAbsent(Twin, key, item),
             Call("PutIfAbsent", key, item, EmptyMap, <<>>, EmptyMap))

TwinPutAll ==
    \E m \in MapsUpTo(MaxBatch) :
        Both(DictionarySyncPutAll(Self, m), DictionaryPutAll(Twin, m),
             Call("PutAll", 0, 0, m, <<>>, EmptyMap))

TwinRemove ==
    \E key \in Keys :
        Both(DictionarySyncRemove(Self, key), DictionaryRemove(Twin, key),
             Call("Remove", key, 0, EmptyMap, <<>>, EmptyMap))

\* Each map is ranged over in an order of its own.
TwinFilterSelf ==
    \E predicate \in ReadPredicates :
        \E order \in RangeOrders(items), theirs \in RangeOrders(other.items) :
            Both(DictionarySyncFilterSelf(Self, predicate, order),
                 DictionaryFilterSelf(Twin, predicate, theirs),
                 Call("FilterSelf", 0, 0, EmptyMap, <<>>, predicate))

TwinMap ==
    \E predicate \in MapPredicates :
        Both(DictionarySyncMap(Self, predicate), DictionaryMap(Twin, predicate),
             Call("Map", 0, 0, EmptyMap, <<>>, predicate))

TwinClean ==
    Both(DictionarySyncClean(Self), DictionaryClean(Twin),
         Call("Clean", 0, 0, EmptyMap, <<>>, EmptyMap))

\* Each is given a mapping of its own kind with the same contents.
TwinMerge ==
    \E m \in MapsUpTo(MaxBatch) :
        Both(DictionarySyncMerge(Self, DictionarySyncFromMap(m)),
             DictionaryMerge(Twin, DictionaryFromMap(m)),
             Call("Merge", 0, 0, m, <<>>, EmptyMap))

NextTwin ==
    \/ TwinGet
    \/ TwinExists
    \/ TwinSize
    \/ TwinPut
    \/ TwinPutIfAbsent
    \/ TwinPutAll
    \/ TwinRemove
    \/ TwinFilterSelf
    \/ TwinMap
    \/ TwinClean
    \/ TwinMerge

SpecTwin == InitTwin /\ [][NextTwin]_vars

----------------------------------------------------------------------------
(* A Vector v and the Vector s that v.Slice returned. A Go slice is a window *)
(* onto a backing array: c.items[start:end] is a window onto the array of    *)
(* c.items, beginning start cells further on, and append writes into the     *)
(* array while the window is shorter than its capacity and moves the         *)
(* elements to a new array otherwise. items is v's window and size its       *)
(* capacity; other.items is s's window, other.shares says whether s is still *)
(* on v's array, other.start where in it, and other.cap is s's capacity.     *)

NoSlice ==
    [made |-> FALSE, items |-> <<>>, shares |-> FALSE, start |-> 0, cap |-> 0]

\* The window w after the array cells it shares with the window u, which
\* begins `ahead` cells after w does, were written through u.
Through(w, u, ahead) ==
    [p \in 1..Len(w) |->
        IF p - ahead >= 1 /\ p - ahead <= Len(u) THEN u[p - ahead] ELSE w[p]]

\* The largest capacity followed for a new array.
MaxCap == 8

\* The capacities append may give the new array of a full slice of n
\* elements. The language fixes only that the elements fit; the runtime
\* rounds the size it asks for up to an allocation class, which depends on
\* the element type: a full []byte of 0 to 3 elements grows to 8, a full
\* []int32 of 0 to 2, a full []int of 3 to 6.
Grown(n) == (n + 1)..(IF MaxCap > n THEN MaxCap ELSE n + 1)

\* for i, item := range c.items { c.items[i] = predicate(i, item) }
VectorMap(v, predicate) == [i \in 1..Len(v) |-> predicate[i - 1, v[i]]]

\* The elements, the slices given to VectorFromList and the positions used.
SliceElements == {1, 2}

SliceLists == UNION {[1..n -> SliceElements] : n \in 0..MaxLen}

Positions == 0..MaxLen

\* The functions given to Map: the other element, and a mark on index 0.
VectorMappers ==
    {[p \in Positions \X SliceElements |-> 3 - p[2]],
     [p \in Positions \X SliceElements |-> IF p[1] = 0 THEN 2 ELSE p[2]]}

\* VectorFromList of a slice literal: the capacity is the length.
InitAlias ==
    \E list \in SliceLists :
        /\ impl = "Vector"
        /\ origin = "FromList"
        /\ size = Len(list)
        /\ items = VectorFromList(list)
        /\ timeline = <<>>
        /\ call = Call("FromList", 0, 0, EmptyMap, list, EmptyMap)
        /\ ret = [old |-> ZeroValue, exists |-> FALSE, panic |-> FALSE]
        /\ script = <<>>
        /\ mu = Unlocked
        /\ procs = <<>>
        /\ other = NoSlice

\* The state after a call that left v and s, and returned old and exists.
Aliased(v, s, old, exists, c) ==
    /\ items' = v
    /\ other' = s
    /\ ret' = [old |-> old, exists |-> exists, panic |-> FALSE]
    /\ call' = c
    /\ UNCHANGED <<impl, origin, timeline, script, mu, procs>>

\* s := v.Slice(start, end), for the arguments the slice expression accepts.
AliasSlice ==
    \E start \in Positions, end \in Positions :
        LET r == VectorSlice(items, start, end)
            lo == ClampStart(items, start)
        IN  /\ ~r.panic
            /\ Aliased(r.items,
                       [made |-> TRUE, items |-> VectorFromList(r.old),
                        shares |-> TRUE, start |-> lo, cap |-> size - lo],
                       ZeroValue, FALSE,
                       Call("Slice", start, end, EmptyMap, <<>>, EmptyMap))
            /\ UNCHANGED size

\* v.Append(item)
AliasAppend ==
    /\ Len(items) < MaxLen
    /\ \E item \in SliceElements :
           LET v == VectorAppend(items, item)
               c == Call("Append", 0, item, EmptyMap, <<>>, EmptyMap)
           IN  IF Len(items) < size
               THEN /\ Aliased(v,
                               IF other.shares
                               THEN [other EXCEPT
                                        !.items = Through(@, v, 0 - other.start)]
                               ELSE other,
                               ZeroValue, FALSE, c)
                    /\ UNCHANGED size
               ELSE /\ Aliased(v, [other EXCEPT !.shares = FALSE],
                               ZeroValue, FALSE, c)
                    /\ size' \in Grown(Len(items))

\* v.Set(index, item)
AliasSet ==
    /\ \E index \in Positions, item \in SliceElements :
           LET r == VectorSet(items, index, item)
           IN  Aliased(r.items,
                       IF other.shares
                       THEN [other EXCEPT
                                !.items = Through(@, r.items, 0 - other.start)]
                       ELSE other,
                       r.old, r.exists,
                       Call("Set", index, item, EmptyMap, <<>>, EmptyMap))
    /\ UNCHANGED size

\* s.Append(item)
SliceAppend ==
    /\ other.made
    /\ Len(other.items) < MaxLen
    /\ \E item \in SliceElements :
           LET s == VectorAppend(other.items, item)
               c == Call("AppendOnSlice", 0, item, EmptyMap, <<>>, EmptyMap)
           IN  IF Len(other.items) < other.cap
               THEN Aliased(IF other.shares
                            THEN Through(items, s, other.start)
                            ELSE items,
                            [other EXCEPT !.items = s], ZeroValue, FALSE, c)
               ELSE \E cap \in Grown(Len(other.items)) :
                        Aliased(items,
                                [other EXCEPT !.items = s, !.shares = FALSE,
                                              !.start = 0, !.cap = cap],
                                ZeroValue, FALSE, c)
    /\ UNCHANGED size

\* s.Set(index, item)
SliceSet ==
    /\ other.made
    /\ \E index \in Positions, item \in SliceElements :
           LET r == VectorSet(other.items, index, item)
           IN  Aliased(IF other.shares
                       THEN Through(items, r.items, other.start)
                       ELSE items,
                       [other EXCEPT !.items = r.items], r.old, r.exists,
                       Call("SetOnSlice", index, item, EmptyMap, <<>>, EmptyMap))
    /\ UNCHANGED size

\* s.Map(predicate)
SliceMap ==
    /\ other.made
    /\ \E predicate \in VectorMappers :
           LET s == VectorMap(other.items, predicate)
           IN  Aliased(IF other.shares
                       THEN Through(items, s, other.start)
                       ELSE items,
                       [other EXCEPT !.items = s], ZeroValue, FALSE,
                       Call("MapOnSlice", 0, 0, EmptyMap, <<>>, predicate))
    /\ UNCHANGED size

NextAlias ==
    \/ AliasSlice
    \/ AliasAppend
    \/ AliasSet
    \/ SliceAppend
    \/ SliceSet
    \/ SliceMap

SpecAlias == InitAlias /\ [][NextAlias]_vars

----------------------------------------------------------------------------
(* Properties *)

Size == Cardinality(DOMAIN items)

TimelineKeys == {timeline[i] : i \in 1..Len(timeline)}

Min(a, b) == IF a <= b THEN a ELSE b

\* C1: a mapping created empty or seeded from a map never holds more
\* entries than its capacity, after any sequence of Put, PutIfAbsent and
\* PutAll.
CapacityInvariant ==
    origin \in {"Empty", "FromMap"} => Size <= size

\* A PutAll of more keys than the capacity has run and left the mapping full.
CapacityWitness ==
    /\ origin \in {"Empty", "FromMap"}
    /\ call.op = "PutAll"
    /\ Cardinality(DOMAIN call.m) > size
    /\ Size = size

\* C2: after every Put, PutIfAbsent or PutAll the keys of the backing map are
\* the keys of the timeline, no key occurs twice in the timeline, and the map
\* has as many entries as the timeline has elements.
MapTimelineConsistent ==
    origin \in {"Empty", "FromMap"} =>
        /\ DOMAIN items = TimelineKeys
        /\ \A i, j \in 1..Len(timeline) : i # j => timeline[i] # timeline[j]
        /\ Size = Len(timeline)

\* C3: after C distinct keys k1..kC were Put into an empty mapping of
\* capacity C >= 2, Put(k1, new) and then Put(d, v) of a new key d leave k1
\* present with the new value, k3..kC and d present, and k2 absent.
WriteRefreshesRecency ==
    (/\ size >= 2
     /\ Len(script) = size + 2
     /\ script[size + 1].op = "Put") =>
        /\ script[1].key \in DOMAIN items
        /\ items[script[1].key] = script[size + 1].item
        /\ script[2].key \notin DOMAIN items
        /\ \A i \in 3..(size + 2) : i # size + 1 => script[i].key \in DOMAIN items

\* C4: after Put(k, v) returns, k is present with the value v.
PutMakesKeyPresent ==
    call.op = "Put" =>
        /\ call.key \in DOMAIN items
        /\ items[call.key] = call.item

\* C5: after C distinct keys k1..kC were Put into an empty mapping of
\* capacity C, PutIfAbsent(k1, v) and then Put(d, v) of a new key d evict
\* k1 and leave k2..kC and d present.
PutIfAbsentKeepsRecency ==
    (/\ Len(script) = size + 2
     /\ script[size + 1].op = "PutIfAbsent") =>
        /\ script[1].key \notin DOMAIN items
        /\ \A i \in 2..(size + 2) : i # size + 1 => script[i].key \in DOMAIN items
        /\ Size = size

\* The scripted caller has run the case of capacity 3 to its end.
PutIfAbsentKeepsRecencyWitness ==
    /\ size = 3
    /\ Len(script) = size + 2
    /\ script[size + 1].op = "PutIfAbsent"
    /\ script[size + 2].op = "Put"
    /\ script[size + 2].key \in DOMAIN items

\* C6: after PutIfAbsent(k, v) returns, k is present, with the value it had
\* when it was present before the call and with v otherwise, and the mapping
\* holds at most its capacity.
PutIfAbsentKeepsKey ==
    call.op = "PutIfAbsent" =>
        /\ call.key \in DOMAIN items
        /\ items[call.key] = (IF ret.exists THEN ret.old ELSE call.item)
        /\ Size <= size

\* C7: after PutAll(m) with 1 <= |m| <= capacity returns, every key of m is
\* present with the value m gives it, and the mapping holds at most its
\* capacity.
PutAllKeepsEntries ==
    (/\ call.op = "PutAll"
     /\ Cardinality(DOMAIN call.m) >= 1
     /\ Cardinality(DOMAIN call.m) <= size) =>
        /\ \A k \in DOMAIN call.m : k \in DOMAIN items /\ items[k] = call.m[k]
        /\ Size <= size

\* C8: a mapping of capacity C seeded from a map m holds exactly min(C, |m|)
\* entries, each an entry of m, and its timeline lists exactly those keys,
\* each once.
SeedFromMapCaps ==
    call.op = "FromMap" =>
        /\ Size = Min(size, Cardinality(DOMAIN call.m))
        /\ \A k \in DOMAIN items : k \in DOMAIN call.m /\ items[k] = call.m[k]
        /\ TimelineKeys = DOMAIN items
        /\ Len(timeline) = Size

\* A mapping has been seeded from a map with more entries than its capacity.
SeedFromMapCapsWitness ==
    /\ call.op = "FromMap"
    /\ Cardinality(DOMAIN call.m) > size
    /\ Size = size

\* The first n elements of the list under their mapped keys.
FirstOfList(list, mapper, n) ==
    [k \in {mapper[list[i]] : i \in 1..n} |->
        list[CHOOSE i \in 1..n : mapper[list[i]] = k]]

\* C9: a mapping of capacity `size` seeded from a list whose elements have
\* pairwise distinct keys holds exactly the first min(size, len(list))
\* elements of the list, each under its mapped key.
SeedFromListKeepsFirst ==
    (/\ call.op = "FromList"
     /\ \A i, j \in 1..Len(call.list) :
            i # j => call.mapper[call.list[i]] # call.mapper[call.list[j]]) =>
        items = FirstOfList(call.list, call.mapper, Min(size, Len(call.list)))

\* C10: a mapping seeded from a list holds at most its capacity and as many
\* entries as its timeline has elements, after construction and after every
\* later Put, PutIfAbsent or PutAll.
SeedFromListConsistent ==
    origin = "FromList" =>
        /\ Size <= size
        /\ Size = Len(timeline)

\* C11: after n pairwise distinct keys were Put into an empty mapping of
\* capacity C, the mapping holds exactly the last min(n, C) keys written,
\* each with the value written; the (C+1)-th Put removes the first key
\* written and no other.
FifoForDistinctKeys ==
    LET n == Len(script)
        kept == (n - Min(n, size) + 1)..n
    IN  /\ DOMAIN items = {script[i].key : i \in kept}
        /\ \A i \in kept : items[script[i].key] = script[i].item

\* Four distinct keys were Put into a mapping of capacity 3: the first is
\* gone and the second is kept.
FifoForDistinctKeysWitness ==
    /\ size = 3
    /\ Len(script) = 4
    /\ script[1].key \notin DOMAIN items
    /\ script[2].key \in DOMAIN items

\* C12: Put(k, v) on a DictionarySync or on a bounded mapping returns
\* existed = TRUE exactly when k was present just before the call, and old
\* is then the value k had just before the call, the zero value otherwise.
PutReturnsOld ==
    [][call'.op = "Put" =>
          /\ ret'.exists = (call'.key \in DOMAIN items)
          /\ ret'.old = IF call'.key \in DOMAIN items THEN items[call'.key]
                                                      ELSE ZeroValue]_vars

\* A Put on each kind of mapping has returned the value it replaced.
PutReturnsOldWitness ==
    /\ call.op = "Put"
    /\ ret.exists
    /\ ret.old # call.item
    /\ impl = "DictionarySync"

\* C13: PutIfAbsent(k, v) of a present key returns the stored value and
\* TRUE, leaves every entry of the backing map as it was and, on a bounded
\* mapping, leaves the timeline as it was, evicting nothing.
PutIfAbsentOfPresentKeeps ==
    [][(call'.op = "PutIfAbsent" /\ call'.key \in DOMAIN items) =>
          /\ ret'.exists
          /\ ret'.old = items[call'.key]
          /\ items' = items
          /\ timeline' = timeline]_vars

\* A PutIfAbsent of a present key with another value has returned on a full
\* bounded mapping.
PutIfAbsentOfPresentKeepsWitness ==
    /\ call.op = "PutIfAbsent"
    /\ ret.exists
    /\ call.key \in DOMAIN items
    /\ items[call.key] # call.item
    /\ impl \in Impls
    /\ Len(timeline) >= size

\* The goroutines that are between the taking and the freeing of the mutex
\* in a method of the given kind.
InBody(ops) ==
    {g \in Goroutines : /\ procs[g].op.op \in ops
                        /\ procs[g].pc \notin {"idle", "len", "lock", "done"}}

\* C14: no two mutating operations are inside their lock-protected bodies
\* together, and no mutating operation is inside its body while a read
\* operation is inside its body.
LockMutualExclusion ==
    /\ Cardinality(InBody(WriteOps)) <= 1
    /\ InBody(WriteOps) # {} => InBody(ReadOps) = {}

\* Two read operations are inside their bodies together, one of them in
\* its loop over the map.
LockMutualExclusionWitness ==
    /\ Cardinality(InBody(ReadOps)) = 2
    /\ \E g \in Goroutines : procs[g].op.op \in ReadOps /\ procs[g].pc = "each"

\* C15: every access a read-only operation makes to the backing map happens
\* while the operation holds the shared lock.
ReadsUnderReadLock ==
    \A g \in Goroutines : procs[g].op.op \in ReadOps => ~procs[g].bare

\* C16: when concurrent calls of Get, Put, PutIfAbsent, Remove, Map and
\* Size on one DictionarySync have all returned, some order of the calls
\* that keeps the real-time order of calls that did not overlap gives, run
\* one call after the other, the values the calls returned and the final
\* contents.
Linearizable ==
    AllDone =>
        \E order \in Orders(Goroutines) :
            /\ RespectsRealTime(order)
            /\ SeqMatches(call.m, order, 1)

\* A Put had returned before a Get of its key began, and a Map overlapped
\* both.
LinearizableWitness ==
    /\ AllDone
    /\ \E g, h, k \in Goroutines :
           /\ procs[g].op.op = "Put"
           /\ procs[h].op.op = "Get"
           /\ procs[h].op.key = procs[g].op.key
           /\ procs[k].op.op = "Map"
           /\ g \in procs[h].after
           /\ k \notin procs[g].after \cup procs[h].after
           /\ procs[k].after = {}
           /\ procs[h].res.old = procs[g].op.item + 1

\* C17: when n goroutines Put, n Map and n Remove on one shared
\* DictionarySync, under fair scheduling every call returns in the end, and
\* the contents are then those some order of the 3n calls gives when the
\* calls run one after the other.
StressCompletes == <>(AllDone /\ SomeOrderGives(call.m, Goroutines))

\* All calls of the stress test have returned, and the Map ran between a
\* Put and the Remove of its key.
StressCompletesWitness ==
    /\ AllDone
    /\ Cardinality(Goroutines) = 3 * StressN
    /\ \E g \in Goroutines :
           /\ procs[g].op.op = "Remove"
           /\ procs[g].res.exists
           /\ procs[g].res.old = procs[g - 2].op.item + 1

\* C18: while goroutines call Put, PutIfAbsent and PutAll on one bounded
\* mapping created empty or from a map, no Size call returns more than the
\* capacity, and when all calls have returned the map and the timeline are
\* what some order of the same calls leaves when the calls run one after
\* the other on the mapping as it was created.
CapacityUnderWriters ==
    /\ \A g \in Goroutines :
           (procs[g].op.op = "Size" /\ procs[g].pc \in {"unlock", "done"}) =>
               procs[g].res <= size
    /\ AllDone =>
           \E order \in RangeOrders(call.m) :
               SomeOrderLeaves(DictionaryLimitFromMap(size, call.m, order), Goroutines)

\* On a mapping created full, a Put of a new key, a PutAll and a Size that
\* returned the capacity have all returned.
CapacityUnderWritersWitness ==
    /\ AllDone
    /\ Cardinality(DOMAIN call.m) = size
    /\ \E g, h, k \in Goroutines :
           /\ procs[g].op.op = "Size"
           /\ procs[g].res = size
           /\ procs[h].op.op = "Put"
           /\ procs[h].op.key \notin DOMAIN call.m
           /\ procs[k].op.op = "PutAll"
           /\ procs[k].op.m # EmptyMap
           /\ procs[h].res.exists = FALSE

\* C19: Max (Min) of a non-empty Dictionary or DictionarySync returns
\* found = TRUE, a pair that is an entry of the mapping, and as score the
\* scorer's value for that entry, which no entry's score exceeds (falls
\* below).
MaxMinCorrect ==
    (/\ impl \in {"Dictionary", "DictionarySync"}
     /\ call.op \in {"Max", "Min"}
     /\ DOMAIN items # {}) =>
        /\ ret.found
        /\ ret.pair.key \in DOMAIN items
        /\ items[ret.pair.key] = ret.pair.value
        /\ call.mapper[ret.pair.key] = ret.score
        /\ \A k \in DOMAIN items :
               IF call.op = "Max" THEN call.mapper[k] <= ret.score
                                  ELSE call.mapper[k] >= ret.score

\* Max has returned the score 0 that two of three entries share, the third
\* scoring below.
MaxMinCorrectWitness ==
    /\ impl = "DictionarySync"
    /\ call.op = "Max"
    /\ Cardinality(DOMAIN items) = 3
    /\ ret.score = 0
    /\ Cardinality({k \in DOMAIN items : call.mapper[k] = ret.score}) = 2

\* C20: Max and Min of an empty Dictionary, DictionarySync or Vector return
\* found = FALSE, the score 0 and the zero pair or element, and do not call
\* the scorer.
MaxMinEmpty ==
    (call.op \in {"Max", "Min"} /\ DOMAIN items = {}) =>
        /\ ~ret.found
        /\ ret.score = 0
        /\ ret.calls = 0
        /\ IF impl = "Vector" THEN ret.item = ZeroValue
                              ELSE ret.pair = NewPair(0, ZeroValue)

\* Min has returned on an empty Vector.
MaxMinEmptyWitness ==
    /\ impl = "Vector"
    /\ call.op = "Min"
    /\ Len(items) = 0
    /\ ~ret.found

\* The entries of its that pass predicate.
Passing(its, predicate) ==
    [k \in {x \in DOMAIN its : predicate[x, its[x]]} |-> its[k]]

\* C21: Filter returns a mapping holding exactly the entries that pass the
\* predicate and leaves the receiver as it was; afterwards a Put or Remove on
\* the returned mapping does not change the receiver, and a Put or Remove on
\* the receiver does not change the returned mapping.
FilterIndependent ==
    [][/\ call'.op = "Filter" =>
              /\ items' = items
              /\ other'.items = Passing(items, call'.mapper)
       /\ call'.op \in {"PutOnFiltered", "RemoveOnFiltered"} => items' = items
       /\ call'.op \in {"Put", "Remove"} => other'.items = other.items]_vars

\* Every entry passed the predicate, and a later Put on the returned mapping
\* gave a key a value the receiver does not have.
FilterIndependentWitness ==
    /\ other.made
    /\ call.op = "PutOnFiltered"
    /\ DOMAIN other.items = DOMAIN items
    /\ Cardinality(DOMAIN items) = 2
    /\ other.items[call.key] # items[call.key]

\* C22: Remove(k) of a present key returns the value and true, and afterwards
\* the key is absent and the other entries are as they were; Remove(k) of an
\* absent key returns the zero value and false and changes nothing; a second
\* Remove(k) right after the first returns false and changes nothing.
RemoveDeletes ==
    [][call'.op = "Remove" =>
          LET k == call'.key
          IN  /\ IF k \in DOMAIN items
                 THEN /\ ret' = [old |-> items[k], exists |-> TRUE]
                      /\ items' = [x \in DOMAIN items \ {k} |-> items[x]]
                 ELSE /\ ret' = [old |-> ZeroValue, exists |-> FALSE]
                      /\ items' = items
              /\ (call.op = "Remove" /\ call.key = k) =>
                     /\ ~ret'.exists
                     /\ items' = items]_vars

\* A Remove took one of two entries out.
RemoveDeletesWitness ==
    /\ impl \in PlainImpls
    /\ call.op = "Remove"
    /\ ret.exists
    /\ call.key \notin DOMAIN items
    /\ Cardinality(DOMAIN items) = 1

\* v without the element at Go index i.
Without(v, i) == SubSeq(v, 1, i) \o SubSeq(v, i + 2, Len(v))

InRange(v, i) == i >= 0 /\ i < Len(v)

\* C23: Vector.Remove(index) with 0 <= index < Size() returns the element at
\* index and true and leaves the vector without that element, one shorter and
\* the rest in order; with an index out of range it returns false and leaves
\* the vector as it was.
RemoveTakesElementOut ==
    [][call'.op = "Remove" =>
          LET i == call'.key
          IN  IF InRange(items, i)
              THEN /\ ret'.old = items[i + 1]
                   /\ ret'.exists
                   /\ Len(items') = Len(items) - 1
                   /\ items' = Without(items, i)
              ELSE /\ ~ret'.exists
                   /\ items' = items]_vars

\* C24: Shift on a non-empty Vector returns the first element and true and
\* leaves the rest in order; on an empty Vector it returns false and the
\* vector stays empty; Size()+1 Shifts in a row return the elements in their
\* original order and then false.
ShiftPopsFront ==
    script # <<>> =>
        LET orig == script[1].before
        IN  /\ \A n \in 1..Len(script) :
                   /\ script[n].before = SubSeq(orig, n, Len(orig))
                   /\ script[n].ret =
                          IF n <= Len(orig)
                          THEN [old |-> orig[n], exists |-> TRUE, panic |-> FALSE]
                          ELSE [old |-> ZeroValue, exists |-> FALSE,
                                panic |-> FALSE]
            /\ items = SubSeq(orig, Len(script) + 1, Len(orig))

\* A vector of MaxLen elements, not all equal, was drained and shifted once more.
ShiftPopsFrontWitness ==
    /\ script # <<>>
    /\ Len(script[1].before) = MaxLen
    /\ script[1].before[1] # script[1].before[MaxLen]
    /\ Len(script) = MaxLen + 1
    /\ ~ret.exists

\* C25: Get(i) and Set(i, x) never panic; with i < 0 or i >= Size() they
\* return false and leave the vector unchanged; with 0 <= i < Size(), Set
\* returns the previous element and true, a Get(i) that follows returns x and
\* true, and the length and every other position are unchanged.
IndexOutOfRangeByFlag ==
    [][/\ call'.op \in {"Get", "Set"} =>
              /\ ~ret'.panic
              /\ Len(items') = Len(items)
              /\ ~InRange(items, call'.key) =>
                     /\ ~ret'.exists
                     /\ items' = items
       /\ (call'.op = "Get" /\ InRange(items, call'.key)) =>
              /\ ret'.old = items[call'.key + 1]
              /\ ret'.exists
              /\ items' = items
       /\ (call'.op = "Set" /\ InRange(items, call'.key)) =>
              /\ ret'.old = items[call'.key + 1]
              /\ ret'.exists
              /\ \A j \in 1..Len(items) :
                     j # call'.key + 1 => items'[j] = items[j]
              /\ VectorGet(items', call'.key).old = call'.item
              /\ VectorGet(items', call'.key).exists
       /\ (call.op = "Set" /\ ret.exists
             /\ call'.op = "Get" /\ call'.key = call.key) =>
              /\ ret'.old = call.item
              /\ ret'.exists]_vars

\* A Set replaced the middle element of a full vector by a different one.
IndexOutOfRangeByFlagWitness ==
    /\ impl = "Vector"
    /\ call.op = "Set"
    /\ ret.exists
    /\ call.key = 1
    /\ Len(items) = MaxLen
    /\ ret.old # call.item
    /\ items[2] = call.item

\* The key that Put(key, _) evicts from a mapping whose timeline is tl, in a
\* set: the front of the timeline once key is at its back, if that is longer
\* than the capacity.
NextEvicted(tl, key) ==
    LET after == Refreshed(impl, tl, key)
    IN  IF VectorSize(after) > size THEN {VectorShiftFirst(after)} ELSE {}

\* C28: Get, Exists, Size, Find, FindOne, ForEach, Keys, Values, Pairs,
\* Collect, Clone, Max, Min and Filter on a bounded mapping leave the backing
\* map and the timeline as they were, so the next Put of any key evicts the
\* same key as it would have without the read.
ReadsKeepOrder ==
    [][call'.op \in ReadNames =>
          /\ items' = items
          /\ timeline' = timeline
          /\ \A key \in Keys :
                 NextEvicted(timeline', key) = NextEvicted(timeline, key)]_vars

\* A Get found the oldest key of a full mapping of two entries, the key the
\* next Put of a new key evicts.
ReadsKeepOrderWitness ==
    /\ impl \in Impls
    /\ call.op = "Get"
    /\ ret.exists
    /\ size = 2
    /\ Len(timeline) = 2
    /\ Cardinality(DOMAIN items) = 2
    /\ call.key = timeline[1]
    /\ \E key \in Keys \ DOMAIN items : NextEvicted(timeline, key) = {call.key}

\* How often key occurs in the timeline tl.
Occurrences(tl, key) == Cardinality({i \in 1..Len(tl) : tl[i] = key})

\* Every key of the map is in the timeline exactly once, and the timeline
\* holds no other key.
Consistent(d) ==
    /\ \A k \in DOMAIN d.items : Occurrences(d.timeline, k) = 1
    /\ \A i \in 1..Len(d.timeline) : d.timeline[i] \in DOMAIN d.items

\* tl without the occurrences of key.
Others(tl, key) == SelectSeq(tl, LAMBDA t : t # key)

\* C26: Put(k, v) on a bounded mapping that holds k, its map and timeline
\* consistent, leaves a timeline of the same length with k exactly once and
\* last and the other keys in their previous order, and evicts no key.
PutRefreshesInPlace ==
    (/\ impl \in Impls
     /\ call.op = "Put"
     /\ Len(script) = 1
     /\ Consistent(script[1])
     /\ call.key \in DOMAIN script[1].items) =>
        /\ Len(timeline) = Len(script[1].timeline)
        /\ Occurrences(timeline, call.key) = 1
        /\ timeline[Len(timeline)] = call.key
        /\ Others(timeline, call.key) = Others(script[1].timeline, call.key)
        /\ DOMAIN items = DOMAIN script[1].items

\* The keys the last call took out of the map.
Removed == DOMAIN script[1].items \ DOMAIN items

\* C27: a Put or PutIfAbsent on a bounded mapping removes at most one key,
\* and the key it removes is the front of the timeline at the moment of the
\* eviction, after the written key went to the back; a call that finds the
\* timeline shorter than the capacity removes no key.
OneEvictionPerWrite ==
    (/\ impl \in Impls
     /\ call.op \in {"Put", "PutIfAbsent"}
     /\ Len(script) = 1) =>
        /\ Cardinality(Removed) <= 1
        /\ Removed \subseteq
               {VectorShiftFirst(Refreshed(impl, script[1].timeline, call.key))}
        /\ Len(script[1].timeline) < size => Removed = {}

\* A Put of a new key into a full, consistent mapping of two entries evicted
\* the older one and nothing else.
OneEvictionPerWriteWitness ==
    /\ impl \in Impls
    /\ call.op = "Put"
    /\ Len(script) = 1
    /\ ~ret.exists
    /\ size = 2
    /\ Consistent(script[1])
    /\ Len(script[1].timeline) = 2
    /\ Removed = {script[1].timeline[1]}
    /\ Cardinality(DOMAIN items) = 2

\* C29: on a bounded mapping whose map and timeline are consistent, Remove(k)
\* of a present key leaves k in neither, FilterSelf leaves a timeline of
\* exactly the retained keys, Clean leaves both empty, and in every case the
\* map and the timeline are consistent afterwards.
RemovalKeepsConsistent ==
    (/\ impl \in Impls
     /\ call.op \in {"Remove", "FilterSelf", "Clean"}
     /\ Len(script) = 1
     /\ Consistent(script[1])) =>
        /\ Consistent(Self)
        /\ (call.op = "Remove" /\ ret.exists) =>
               /\ call.key \notin DOMAIN items
               /\ call.key \notin TimelineKeys
        /\ call.op = "FilterSelf" =>
               /\ DOMAIN items = DOMAIN Passing(script[1].items, call.mapper)
               /\ TimelineKeys = DOMAIN items
        /\ call.op = "Clean" =>
               /\ items = EmptyMap
               /\ timeline = <<>>

\* C30: a mapping of capacity C >= 2 is filled with C keys, one of them is
\* removed, and a key that is not in the mapping is written with Put or
\* PutIfAbsent: the write evicts nothing, so the mapping holds C entries again,
\* those of the fill other than the removed one among them.
FreedSlotIsReused ==
    (/\ impl \in Impls
     /\ size >= 2
     /\ Len(script) = size + 2
     /\ script[size + 1].op = "Remove") =>
        /\ Cardinality(DOMAIN items) = size
        /\ \A i \in 1..size :
               script[i].key # script[size + 1].key =>
                   /\ script[i].key \in DOMAIN items
                   /\ items[script[i].key] = script[i].item

\* C31: after Merge(other) on a bounded mapping of capacity C, Size() <= C and
\* the keys of the backing map are the keys of the timeline, whatever mapping
\* other is.
MergeRespectsBound ==
    (impl \in Impls /\ call.op = "Merge") =>
        /\ Size <= size
        /\ DOMAIN items = TimelineKeys

\* C32: a mapping of capacity C is filled by C Puts of distinct keys and
\* PutAll is called with n new keys. With n <= C the n keys written first are
\* evicted, the other C - n keep their values and the n new entries are
\* present; with n > C the mapping holds exactly C entries, all of them
\* entries of the given map. Size() and the timeline length are at most C.
PutAllEvictsOldest ==
    (impl \in Impls /\ Len(script) = size + 1 /\ call.op = "PutAll") =>
        LET m == call.m
            n == Cardinality(DOMAIN m)
        IN  /\ Size <= size
            /\ Len(timeline) <= size
            /\ IF n <= size
               THEN /\ DOMAIN items =
                           {script[i].key : i \in (n + 1)..size} \cup DOMAIN m
                    /\ \A i \in (n + 1)..size :
                           items[script[i].key] = script[i].item
                    /\ \A k \in DOMAIN m : items[k] = m[k]
               ELSE /\ Size = size
                    /\ DOMAIN items \subseteq DOMAIN m
                    /\ \A k \in DOMAIN items : items[k] = m[k]

\* A full mapping of two entries took a PutAll of one new key: the older
\* entry is gone, the younger kept.
PutAllEvictsOldestWitness ==
    /\ impl \in Impls
    /\ size = 2
    /\ Len(script) = 3
    /\ call.op = "PutAll"
    /\ Cardinality(DOMAIN call.m) = 1
    /\ script[1].key \notin DOMAIN items
    /\ script[2].key \in DOMAIN items
    /\ Size = 2

Max(a, b) == IF a >= b THEN a ELSE b

\* The elements of v at the Go positions i with max(0, start) <= i < min(end, len).
Clamped(v, start, end) == SubSeq(v, Max(0, start) + 1, Min(end, Len(v)))

\* C33: Slice(start, end) and SliceSelf(start, end) return without panicking
\* for any start and end; the result holds the elements at the positions from
\* max(0, start) up to min(end, Size()), none when that range is empty; Slice
\* leaves the receiver's elements as they were.
SliceClamps ==
    [][call'.op \in {"Slice", "SliceSelf"} =>
          /\ ~ret'.panic
          /\ ret'.old = Clamped(items, call'.key, call'.item)
          /\ call'.op = "Slice" => items' = items
          /\ call'.op = "SliceSelf" => items' = ret'.old]_vars

RECURSIVE Concat(_)
Concat(pages) ==
    IF pages = <<>> THEN <<>> ELSE Head(pages) \o Concat(Tail(pages))

\* The least k with k * s >= n.
Ceil(n, s) == CHOOSE k \in 0..n : k * s >= n /\ (k = 0 \/ (k - 1) * s < n)

\* C34: for a Vector of length n and every page size s >= 1, Pages(s) is
\* ceil(n / s), the pages 1..Pages(s) put end to end are the vector, every
\* page but the last has s elements, Page(0, s) is Page(1, s), and a page
\* after the last is empty; a Pages or Page call returns these values.
PagesPartition ==
    impl = "Vector" =>
        /\ \A s \in PageSizes :
               LET np == VectorPages(items, s)
                   page(p) == VectorPage(items, p, s)
               IN  /\ np = Ceil(Len(items), s)
                   /\ Concat([p \in 1..np |-> page(p).old]) = items
                   /\ \A p \in 1..np : ~page(p).panic
                   /\ \A p \in 1..(np - 1) : Len(page(p).old) = s
                   /\ page(0) = page(1)
                   /\ \A p \in (np + 1)..(np + 2) :
                          page(p).old = <<>> /\ ~page(p).panic
        /\ call.op = "Pages" => ret.old = Ceil(Len(items), call.item)
        /\ call.op = "Page" =>
               /\ ~ret.panic
               /\ ret.old = SubSeq(items, (Max(call.key, 1) - 1) * call.item + 1,
                                   Min(Max(call.key, 1) * call.item, Len(items)))

\* The second page of a vector of three elements cut in pages of two: the
\* last element alone.
PagesPartitionWitness ==
    /\ impl = "Vector"
    /\ call.op = "Page"
    /\ call.key = 2
    /\ call.item = 2
    /\ Len(items) = 3
    /\ items[3] # items[1]
    /\ ret.old = <<items[3]>>


----------------------------------------------------------------------------
\* The keys the calls of a script wrote.
WrittenBy(calls) ==
    UNION {IF calls[i].op = "PutAll" THEN DOMAIN calls[i].m
                                     ELSE {calls[i].key} :
              i \in 1..Len(calls)}

\* C35: on a bounded mapping created empty, as long as the calls made so far
\* (Put, PutIfAbsent, PutAll) wrote no more distinct keys than the capacity,
\* nothing has been evicted: the mapping holds exactly what an unbounded
\* DictionarySync holds after the same calls, every key written with the
\* value written last.
NoEvictionBelowCapacity ==
    (impl \in Impls /\ other.made /\ Cardinality(WrittenBy(script)) <= size)
        => /\ items = other.items
           /\ DOMAIN items = WrittenBy(script)

\* C36: a key written by Put(k, v) is still present with v after each of the
\* next C - 1 Put or PutIfAbsent calls on other keys (C the capacity): for
\* every Put in the script followed only by fewer than C such calls, the
\* mapping holds k with v.
MinimumResidency ==
    (impl \in Impls /\ other.made)
        => \A i \in 1..Len(script) :
               (/\ script[i].op = "Put"
                /\ Len(script) - i <= size - 1
                /\ \A j \in (i + 1)..Len(script) :
                       /\ script[j].op \in {"Put", "PutIfAbsent"}
                       /\ script[j].key # script[i].key)
                   => /\ script[i].key \in DOMAIN items
                      /\ items[script[i].key] = script[i].item


----------------------------------------------------------------------------
\* The goroutines whose PutIfAbsent has returned existed = false.
Inserters == {g \in Goroutines : procs[g].pc = "done" /\ ~procs[g].res.exists}

\* C37: of the goroutines that call PutIfAbsent(k, v) concurrently for one
\* absent key k, at most one has returned existed = false at any time; once
\* all have returned exactly one has, every other call returned existed =
\* true with the value of that one call, and k holds that value.
PutIfAbsentInsertsOnce ==
    procs # <<>> =>
        /\ Cardinality(Inserters) <= 1
        /\ AllDone =>
               \E w \in Goroutines :
                   /\ Inserters = {w}
                   /\ procs[w].res.old = ZeroValue
                   /\ procs[w].op.key \in DOMAIN items
                   /\ items[procs[w].op.key] = procs[w].op.item
                   /\ \A g \in Goroutines \ {w} :
                          /\ procs[g].res.exists
                          /\ procs[g].res.old = procs[w].op.item

----------------------------------------------------------------------------
\* C38: used by one caller, a DictionarySync and a Dictionary started with
\* the same contents and given the same Get, Exists, Size, Put, PutIfAbsent,
\* PutAll, Remove, FilterSelf, Map and Clean calls return the same values at
\* every call and hold the same contents after every call.
SyncRefinesDictionary ==
    /\ items = other.items
    /\ ret = script[1]

\* A PutIfAbsent of a present key has returned on both: the place where a
\* Dictionary that wrote anyway would part from the DictionarySync.
SyncRefinesDictionaryWitness ==
    /\ call.op = "PutIfAbsent"
    /\ ret.exists
    /\ ret.old # call.item
    /\ script[1] = ret
    /\ items = other.items
    /\ items[call.key] = ret.old


----------------------------------------------------------------------------
\* C39: once s := v.Slice(start, end) has returned, an Append, Set or Map on
\* s leaves every element of v as it was, and an Append or Set on v leaves
\* every element of s as it was.
SliceIndependent ==
    [][other.made =>
          /\ call'.op \in {"AppendOnSlice", "SetOnSlice", "MapOnSlice"}
                 => items' = items
          /\ call'.op \in {"Append", "Set"}
                 => other'.items = other.items]_vars


----------------------------------------------------------------------------
\* C40: on a mapping created empty or from a map, after every Put,
\* PutIfAbsent and PutAll the timeline is no longer than the capacity and
\* every key of the backing map occurs in the timeline.
TimelineBounded ==
    origin \in {"Empty", "FromMap"} =>
        /\ Len(timeline) <= size
        /\ DOMAIN items \subseteq TimelineKeys

\* A PutAll has rewritten keys of a full mapping of capacity 2 or more: the
\* timeline is full and holds a key the map has lost.
TimelineBoundedWitness ==
    /\ origin \in {"Empty", "FromMap"}
    /\ call.op = "PutAll"
    /\ size >= 2
    /\ Len(timeline) = size
    /\ Size >= 1
    /\ Size < Len(timeline)
    /\ DOMAIN items # TimelineKeys

====
